---- MODULE Spec2Model ----
(***************************************************************************)
(* Model of karapace's KafkaSchemaReader (src/karapace/schema_reader.py):  *)
(* the replay of the schemas topic into subjects / schemas /               *)
(* global_schema_id, the reader loop around it, and get_schema_id.         *)
(* Further: check_compatibility (src/karapace/compatibility/__init__.py),  *)
(* SchemaBackup.create / restore_backup and the retried topic creation     *)
(* (src/karapace/backup/api.py), and HTTPAuthorizer's auth file            *)
(* (src/karapace/auth.py).                                                 *)
(***************************************************************************)
EXTENDS Integers, Sequences, FiniteSets, TLC

\* ------------------------------------------------------------------ bounds
MaxLog == 3          \* records the consumer hands out over a run
MaxBatch == 2        \* records returned by one poll
MaxCalls == 1        \* get_schema_id calls made by request threads over a run
MaxCallLog == 2      \* records the consumer hands out in a run with request threads
MaxStoreLog == 2     \* records the consumer hands out in a run that follows each stored entry
MaxRunLog == 3       \* records the consumer hands out in a run that follows run() and close()

\* ------------------------------------------------------------------ values
None == "None"                       \* Python's None / an absent dict key
Subjects == {"s1", "s2"}
Versions == {1, 2}                   \* versions the records of the log carry
Ids == {1, 2}                        \* schema ids the records of the log carry
Threads == {"t1", "t2"}

\* TypedSchema(schema_type=..., schema_str=...): a value compared by its fields.
TypedSchema(schema_type, schema_str) ==
    [schema_type |-> schema_type, schema_str |-> schema_str]

\* ujson.loads(schema_str) succeeds (the texts the log of this model carries).
JsonLoads(text) == text \in {"{}", "[]"}

\* The JSON value of a record, with every key the handlers read; a key the value
\* does not carry is None (0 for the numbers).
Value(level, subject, version, id, schemaType, schema, deleted) ==
    [compatibilityLevel |-> level, subject |-> subject, version |-> version,
     id |-> id, schemaType |-> schemaType, schema |-> schema, deleted |-> deleted]

NoValue == Value(None, None, 0, 0, None, None, FALSE)

\* A polled record: key and value bytes ("json", "garbage" that ujson rejects,
\* or "empty" for a null value), the decoded key and the decoded value.
Msg(keyBytes, valueBytes, keytype, subject, version, value) ==
    [keyBytes |-> keyBytes, valueBytes |-> valueBytes,
     key |-> [keytype |-> keytype, subject |-> subject, version |-> version],
     value |-> value]

ConfigMsgs ==
    { Msg("json", "json", "CONFIG", s, 0, Value("FULL", None, 0, 0, None, None, FALSE))
        : s \in Subjects \cup {None} }
    \cup { Msg("json", "empty", "CONFIG", s, 0, NoValue) : s \in Subjects \cup {None} }

\* schemaType / schema / deleted of the SCHEMA values on the log; a value
\* without schemaType reads as AVRO.
StoredShapes ==
    { <<None, "{}", FALSE>>, <<"AVRO", "[]", TRUE>>, <<"PROTOBUF", "{", FALSE>> }

SchemaMsgs ==
    { Msg("json", "json", "SCHEMA", s, v, Value(None, s, v, i, sh[1], sh[2], sh[3]))
        : s \in Subjects, v \in Versions, i \in Ids, sh \in StoredShapes }
    \cup { Msg("json", "empty", "SCHEMA", s, v, NoValue) : s \in Subjects, v \in Versions }
    \cup { Msg("json", "json", "SCHEMA", "s1", 1, Value(None, "s1", 1, 2, "JSON", "{", FALSE)),
           Msg("json", "json", "SCHEMA", "s1", 1, Value(None, "s1", 1, 2, "XML", "{}", FALSE)) }

DeleteSubjectMsgs ==
    { Msg("json", "json", "DELETE_SUBJECT", s, 0, Value(None, s, v, 0, None, None, FALSE))
        : s \in Subjects, v \in Versions }

OtherMsgs ==
    { Msg("json", "empty", "NOOP", None, 0, NoValue),
      Msg("garbage", "json", None, None, 0, NoValue),
      Msg("json", "garbage", "SCHEMA", "s1", 1, NoValue) }

Msgs == ConfigMsgs \cup SchemaMsgs \cup DeleteSubjectMsgs \cup OtherMsgs

\* ------------------------------------------------------------------ state
VARIABLES
    subjects,           \* self.subjects: subject -> [compatibility, schemas: version -> entry]
    schemas,            \* self.schemas: the id -> TypedSchema dict, in insertion order
    global_schema_id,   \* self.global_schema_id
    compatibility,      \* self.config["compatibility"]
    offset,             \* self.offset
    ready,              \* self.ready
    position,           \* the consumer's position: offset of the next record poll returns
    batch,              \* number of records of raw_msgs the loop of handle_messages has not reached
    outcome,            \* what the loop logged for the last record: "handled", "invalid key",
                        \* "invalid value", or the exception run() caught; "none" before any
    id_lock,            \* self.id_lock: its holder, or None
    rpc,                \* line of handle_msg the reader thread stands at ("loop": between records)
    rvalue,             \* the value handle_msg is called with, while the reader is inside it
    threads,            \* request threads inside get_schema_id
    calls,              \* get_schema_id calls started
    running,            \* self.running
    admin_client,       \* self.admin_client: None, "open", "closed", or "close raised"
    schema_topic,       \* self.schema_topic: None or "topic"
    consumer,           \* self.consumer: None, "open", "closed", or "close raised"
    rloc,               \* line of run() the reader thread stands at
    are_we_master,      \* what get_master_info() answered in this call of handle_messages
    queue,              \* self.queue: the offsets put and not taken
    args,               \* check_compatibility: old_schema, new_schema and compatibility_mode
                        \* (None before the call)
    checker,            \* what the schema kind's checker answers in either direction
    checker_calls,      \* the calls of the kind's checkers, in order
    result,             \* what check_compatibility returned
    command,            \* the method of SchemaBackup that is called: "create" or "restore"
    backup_version,     \* create's version argument ("V2" or "V3")
    backup_location,    \* self.backup_location: "-", a path that is "missing", or a "file"
    bloc,               \* line of create() / restore_backup() the call stands at
    backup_exception,   \* the exception the call raised, or None
    caught,             \* the exception create() caught (line 429), or None
    backup_consumer,    \* the consumer of _consumer: None, "open" or "closed"
    partition_count,    \* len(supplier(topic)) of the last partition check (0: none made)
    log_start,          \* the topic partition: offset of its first record
    high_watermark,     \* the topic partition: offset the next appended record gets
    start_offset,       \* _consume_records: start_offset
    end_offset,         \* _consume_records: end_offset
    watermark,          \* what consumer.end_offsets answered at line 228 (-1: not asked)
    last_offset,        \* _consume_records: last_offset
    fetch_offset,       \* the backup consumer's position
    records,            \* _consume_records: the records of the last poll not yet yielded
    record,             \* _consume_records: the loop variable (offset of the record; -1 unbound)
    stored,             \* offsets of the records handed to backend.store_record, in order
    polls,              \* calls of consumer.poll made by _consume_records
    finalized,          \* calls of backend.finalize_partition
    metadata,           \* calls of backend.store_metadata
    stale,              \* the arguments of the StaleConsumerError raised
    stream,             \* the instructions backend.read yields, in order
    reader_raises,      \* whether backend.read raises after the last instruction
    ipos,               \* instructions of the stream restore_backup has handled
    producers,          \* the producers opened so far: topic and "open" / "closed"
    producer,           \* restore_backup's local producer: index into producers, 0 for None
    sent,               \* the producer.send calls made: instruction index and producer
    clock,              \* seconds since _maybe_create_topic was called
    topic_args,         \* _maybe_create_topic: backup_version, and whether config and CLI names differ
    topic_start,        \* start time of the retry state around _maybe_create_topic
    admin_start,        \* start time of the retry state around kafka_admin_from_config
    tloc,               \* line of _maybe_create_topic / _admin the call stands at
    retry_exception,    \* the exception _maybe_create_topic raised, or None
    stderr,             \* what the last attempt printed to sys.stderr
    backup_admin,       \* the admin client of _admin: None, "open" or "closed"
    topic_state,        \* the topic on the cluster: "absent" or "present"
    authfile,           \* the auth file on disk
    mtime,              \* os.path.getmtime of the auth file
    userdb,             \* self.userdb (<<>> while the attribute is not set)
    permissions,        \* self.permissions (<<>> while the attribute is not set)
    last_loaded,        \* _refresh_authfile: last_loaded
    refresh_task,       \* self._refresh_auth_task: None, "running", "cancelled" or "failed"
    authorizer,         \* HTTPAuthorizer(): "idle", "constructed" or the exception __init__ raised
    auth_logged         \* the exception the refresh task logged last, or None

reader_vars == <<subjects, schemas, global_schema_id, compatibility, offset, ready,
                 position, batch, outcome, id_lock, rpc, rvalue, threads, calls>>

run_vars == <<running, admin_client, schema_topic, consumer, rloc, are_we_master, queue>>

compat_vars == <<args, checker, checker_calls, result>>

call_vars == <<command, backup_version, backup_location>>

create_vars == <<caught, backup_consumer, log_start, high_watermark, start_offset, end_offset,
                 watermark, last_offset, fetch_offset, records, record, stored, polls,
                 finalized, metadata, stale>>

restore_vars == <<stream, reader_raises, ipos, producers, producer, sent>>

backup_vars == <<call_vars, bloc, backup_exception, partition_count, create_vars, restore_vars>>

retry_vars == <<clock, topic_args, topic_start, admin_start, tloc, retry_exception, stderr,
                backup_admin, topic_state>>

auth_vars == <<authfile, mtime, userdb, permissions, last_loaded, refresh_task, authorizer,
               auth_logged>>

tool_vars == <<backup_vars, retry_vars, auth_vars>>

vars == <<reader_vars, run_vars, compat_vars, tool_vars>>

registry == <<subjects, schemas, global_schema_id, compatibility>>

\* ------------------------------------------------------------------ dict helpers
\* Keys of self.schemas.
SchemaIds(sch) == { sch[i].id : i \in DOMAIN sch }

\* self.schemas[id], for a key of the dict.
SchemaAt(sch, id) == (CHOOSE i \in DOMAIN sch : sch[i].id = id)

\* A dict of the same kind where the write to self.schemas is lost.
StoreSchemaDropped(sch, id, typed) == sch

\* self.schemas[id] = typed: an existing key keeps its place, a new key goes last.
StoreSchema(sch, id, typed) ==
    IF id \in SchemaIds(sch)
    THEN [sch EXCEPT ![SchemaAt(sch, id)] = [id |-> id, schema |-> typed]]
    ELSE Append(sch, [id |-> id, schema |-> typed])

\* The id is taken over without the comparison.
RaiseGlobalIdAlways(gid, id) == id

\* if value["id"] > self.global_schema_id: self.global_schema_id = value["id"]
RaiseGlobalId(gid, id) == IF id > gid THEN id ELSE gid

\* d[k] = v on a dict modelled as a function.
Put(d, k, v) == [x \in (DOMAIN d) \cup {k} |-> IF x = k THEN v ELSE d[x]]

\* The pop is lost: the key stays.
PopKeeps(d, k) == d

\* d.pop(k, None) on a dict modelled as a function.
Pop(d, k) == [x \in (DOMAIN d) \ {k} |-> d[x]]

\* The version entry a SCHEMA record stores.
Entry(typed, value) ==
    [schema |-> typed, version |-> value.version, id |-> value.id, deleted |-> value.deleted]

\* The comparison with the version is lost: every entry is marked.
DeleteSchemaAnyVersion(schema, version) == [schema EXCEPT !.deleted = TRUE]

\* _delete_schema_below_version
DeleteSchemaBelowVersion(schema, version) ==
    IF schema.version <= version THEN [schema EXCEPT !.deleted = TRUE] ELSE schema

\* value.get("schemaType", "AVRO")
SchemaTypeOf(value) == IF value.schemaType = None THEN "AVRO" ELSE value.schemaType

\* ------------------------------------------------------------------ handle_msg
\* The registry tables a record is applied to, and what handle_msg leaves:
\* the tables and the exception it raised ("none" when it returned).
Registry(subj, sch, gid, compat) ==
    [subjects |-> subj, schemas |-> sch, global_schema_id |-> gid,
     compatibility |-> compat, exc |-> "none"]

Raised(R, name) == [R EXCEPT !.exc = name]

\* keytype CONFIG
HandleConfig(R, key, value) ==
    IF key.subject # None
    THEN IF value = NoValue
         THEN IF key.subject \in DOMAIN R.subjects
              THEN [R EXCEPT !.subjects[key.subject].compatibility = None]
              ELSE Raised(R, "KeyError")          \* self.subjects[key["subject"]]
         ELSE LET known == IF key.subject \in DOMAIN R.subjects
                           THEN R.subjects
                           ELSE Put(R.subjects, key.subject,
                                    [compatibility |-> None, schemas |-> <<>>])
              IN [R EXCEPT !.subjects =
                     [known EXCEPT ![key.subject].compatibility = value.compatibilityLevel]]
    ELSE IF value = NoValue
         THEN Raised(R, "TypeError")              \* None["compatibilityLevel"]
         ELSE [R EXCEPT !.compatibility = value.compatibilityLevel]

\* keytype SCHEMA with a null value
HandleSchemaTombstone(R, key) ==
    IF key.subject \notin DOMAIN R.subjects
    THEN R
    ELSE IF key.version \notin DOMAIN R.subjects[key.subject].schemas
         THEN R
         ELSE [R EXCEPT !.subjects[key.subject].schemas = Pop(@, key.version)]

\* Lines 228-241: "typed" when typed_schema is bound, "skip" on the return after
\* the invalid json, "unbound" when no branch assigned typed_schema and the
\* log.debug that reads it raises UnboundLocalError.
SchemaOutcome(value) ==
    LET schema_type == SchemaTypeOf(value)
    IN IF schema_type \in {"AVRO", "JSON"}
       THEN IF JsonLoads(value.schema) THEN "typed" ELSE "skip"
       ELSE IF schema_type = "PROTOBUF" THEN "typed" ELSE "unbound"

\* Lines 243-258: the subject is not in self.subjects.
SchemaNewSubject(R, value, typed) ==
    [R EXCEPT !.subjects = Put(@, value.subject,
                               [compatibility |-> None,
                                schemas |-> (value.version :> Entry(typed, value))]),
              !.schemas = StoreSchema(@, value.id, typed),
              !.global_schema_id = RaiseGlobalId(@, value.id)]

\* The record also stores a version entry the subject does not hold.
SchemaDeletedStoresEntry(R, value, typed) ==
    IF value.version \notin DOMAIN R.subjects[value.subject].schemas
    THEN [R EXCEPT !.schemas = StoreSchema(@, value.id, typed),
                   !.subjects[value.subject].schemas =
                       Put(@, value.version, Entry(typed, value))]
    ELSE [R EXCEPT !.subjects[value.subject].schemas[value.version].deleted = TRUE]

\* Lines 259-264: the subject exists and value["deleted"] is True.
SchemaDeleted(R, value, typed) ==
    IF value.version \notin DOMAIN R.subjects[value.subject].schemas
    THEN [R EXCEPT !.schemas = StoreSchema(@, value.id, typed)]
    ELSE [R EXCEPT !.subjects[value.subject].schemas[value.version].deleted = TRUE]

\* A version the subject already holds keeps its old entry.
SchemaNewVersionKeepsEntry(R, value, typed) ==
    [R EXCEPT !.subjects[value.subject].schemas =
                  IF value.version \in DOMAIN @ THEN @ ELSE Put(@, value.version, Entry(typed, value)),
              !.schemas = StoreSchema(@, value.id, typed),
              !.global_schema_id = RaiseGlobalId(@, value.id)]

\* Lines 265-277: the subject exists and the value is not deleted.
SchemaNewVersion(R, value, typed) ==
    [R EXCEPT !.subjects[value.subject].schemas = Put(@, value.version, Entry(typed, value)),
              !.schemas = StoreSchema(@, value.id, typed),
              !.global_schema_id = RaiseGlobalId(@, value.id)]

\* keytype SCHEMA
HandleSchema(R, key, value) ==
    IF value = NoValue
    THEN HandleSchemaTombstone(R, key)
    ELSE CASE SchemaOutcome(value) = "skip" -> R
           [] SchemaOutcome(value) = "unbound" -> Raised(R, "UnboundLocalError")
           [] OTHER ->
                LET typed == TypedSchema(SchemaTypeOf(value), value.schema)
                IN IF value.subject \notin DOMAIN R.subjects
                   THEN SchemaNewSubject(R, value, typed)
                   ELSE IF value.deleted
                        THEN SchemaDeleted(R, value, typed)
                        ELSE SchemaNewVersion(R, value, typed)

\* keytype DELETE_SUBJECT
HandleDeleteSubject(R, value) ==
    IF value.subject \notin DOMAIN R.subjects
    THEN R
    ELSE [R EXCEPT !.subjects[value.subject].schemas =
             [v \in DOMAIN @ |-> DeleteSchemaBelowVersion(@[v], value.version)]]

\* handle_msg(key, value)
HandleMsg(R, key, value) ==
    CASE key.keytype = "CONFIG" -> HandleConfig(R, key, value)
      [] key.keytype = "SCHEMA" -> HandleSchema(R, key, value)
      [] key.keytype = "DELETE_SUBJECT" -> HandleDeleteSubject(R, value)
      [] OTHER -> R

\* ------------------------------------------------------------------ get_schema_id
\* Schemas request threads ask an id for.
NewSchemas ==
    { TypedSchema("AVRO", "{}"), TypedSchema("AVRO", "[]"), TypedSchema("PROTOBUF", "{") }

NoSchema == TypedSchema(None, None)

\* A request thread: where it stands in get_schema_id, its argument, the dict
\* size its iterator was created with, the items the iterator has passed, the
\* value read for the += and the value returned.
Idle == [pc |-> "idle", arg |-> NoSchema, size |-> 0, cursor |-> 0, tmp |-> 0, result |-> 0]

\* Positions of the entries of self.schemas equal to new_schema, in dict order.
Matches(sch, new_schema) == { i \in DOMAIN sch : sch[i].schema = new_schema }

\* Lines 125-127: the first entry the for loop finds equal.
FirstMatch(sch, new_schema) ==
    CHOOSE i \in Matches(sch, new_schema) : \A j \in Matches(sch, new_schema) : i <= j

\* The scan result is ignored: every call allocates.
GetSchemaIdResultAllocates(sch, gid, new_schema) == gid + 1

\* get_schema_id run without interruption: the value it returns.
GetSchemaIdResult(sch, gid, new_schema) ==
    IF Matches(sch, new_schema) # {}
    THEN sch[FirstMatch(sch, new_schema)].id
    ELSE gid + 1

\* ------------------------------------------------------------------ reader loop
Min(a, b) == IF a <= b THEN a ELSE b

\* Offset of the record the loop of handle_messages stands at.
HeadOffset == position - batch

\* ujson.loads(msg.key.decode("utf8")) raises ValueError.
KeyInvalid(msg) == msg.keyBytes = "garbage"

\* The ValueError of the value is not caught as a skip: the value stays None.
ValueInvalidNever(msg) == FALSE

\* msg.value is set and ujson.loads(msg.value.decode("utf8")) raises ValueError.
ValueInvalid(msg) == msg.valueBytes = "garbage"

\* SchemaCompatibilityResult: the verdict and the incompatibility kinds, in order.
Result(compat, kinds) == [compatibility |-> compat, incompatibilities |-> kinds]

\* SchemaCompatibilityResult.compatible()
Compatible == Result("compatible", <<>>)

\* SchemaCompatibilityResult.incompatible(incompat_type=kind, ...)
Incompatible(kind) == Result("incompatible", <<kind>>)

\* No result: check_compatibility has not returned.
NoResult == Result(None, <<>>)

\* KafkaSchemaReader.__init__: the tables of the registry and the reader's position.
InitReader ==
    /\ subjects = <<>>
    /\ schemas = <<>>
    /\ global_schema_id = 0
    /\ compatibility = "BACKWARD"
    /\ offset = 0
    /\ ready = FALSE
    /\ position = 0
    /\ batch = 0
    /\ outcome = "none"
    /\ id_lock = None
    /\ rpc = "loop"
    /\ rvalue = NoValue
    /\ threads = [t \in Threads |-> Idle]
    /\ calls = 0

\* KafkaSchemaReader.__init__: the thread has not started, no client exists.
InitRun ==
    /\ running = TRUE
    /\ admin_client = None
    /\ schema_topic = None
    /\ consumer = None
    /\ rloc = "l137"
    /\ are_we_master = None
    /\ queue = <<>>

\* check_compatibility is not called.
NoCheck ==
    /\ args = [old_schema |-> NoSchema, new_schema |-> NoSchema, compatibility_mode |-> None]
    /\ checker = [backward |-> NoResult, forward |-> NoResult]
    /\ checker_calls = <<>>
    /\ result = NoResult

\* StaleConsumerError(topic_partition, start_offset, end_offset, last_offset,
\* poll_timeout): the offsets it carries (partition and timeout are those of the call).
StaleConsumerError(start, end, last) ==
    [start_offset |-> start, end_offset |-> end, last_offset |-> last]

NoStale == StaleConsumerError(-1, -1, -1)

\* No SchemaBackup method is called.
NoBackup ==
    /\ command = None /\ backup_version = None /\ backup_location = None
    /\ bloc = "idle" /\ backup_exception = None /\ partition_count = 0
    /\ caught = None /\ backup_consumer = None
    /\ log_start = 0 /\ high_watermark = 0
    /\ start_offset = 0 /\ end_offset = 0 /\ watermark = -1 /\ last_offset = 0
    /\ fetch_offset = 0 /\ records = <<>> /\ record = -1 /\ stored = <<>>
    /\ polls = 0 /\ finalized = 0 /\ metadata = 0 /\ stale = NoStale
    /\ stream = <<>> /\ reader_raises = FALSE /\ ipos = 0
    /\ producers = <<>> /\ producer = 0 /\ sent = <<>>

\* _maybe_create_topic is not called.
NoRetry ==
    /\ clock = 0
    /\ topic_args = [backup_version |-> None, names_differ |-> FALSE]
    /\ topic_start = 0 /\ admin_start = 0
    /\ tloc = "idle" /\ retry_exception = None /\ stderr = <<>>
    /\ backup_admin = None /\ topic_state = "absent"

\* An auth file as _load_authfile finds it: "absent", "unreadable" (open fails),
\* "not json" (json.load fails) or "json", with the "users" and "permissions"
\* lists of the document.
AuthFile(state, users, perms) == [state |-> state, users |-> users, permissions |-> perms]

NoFile == AuthFile("absent", <<>>, <<>>)

\* No HTTPAuthorizer is constructed.
NoAuth ==
    /\ authfile = NoFile /\ mtime = 0
    /\ userdb = <<>> /\ permissions = <<>>
    /\ last_loaded = 0 /\ refresh_task = None
    /\ authorizer = "idle" /\ auth_logged = None

Init == InitReader /\ InitRun /\ NoCheck /\ NoBackup /\ NoRetry /\ NoAuth

\* A step of the reader or of a request thread taken with the clients in place,
\* no coordinator (master_coordinator=None, the default of __init__: add_offsets
\* stays False and nothing is put on the queue) and no compatibility check.
Steady == UNCHANGED <<run_vars, compat_vars, tool_vars>>

\* ready follows the last poll: a poll that returns records clears it.
PollUpToLastPoll(limit) ==
    /\ rpc = "loop"
    /\ batch = 0
    /\ \E n \in 0..Min(MaxBatch, limit - position) :
         /\ batch' = n
         /\ position' = position + n
         /\ ready' = (n = 0)
    /\ UNCHANGED <<registry, offset, outcome, id_lock, rpc, rvalue, threads, calls>>

\* handle_messages, lines 163-165: consumer.poll hands out the next records of
\* the topic and moves the position past them; an empty poll sets ready. What a
\* record carries is drawn when the loop reaches it.
PollUpTo(limit) ==
    /\ rpc = "loop"
    /\ batch = 0
    /\ \E n \in 0..Min(MaxBatch, limit - position) :
         /\ batch' = n
         /\ position' = position + n
         /\ ready' = (ready \/ n = 0)
    /\ UNCHANGED <<registry, offset, outcome, id_lock, rpc, rvalue, threads, calls>>

Poll == PollUpTo(MaxLog)

\* handle_messages, lines 178-190: a key or a value ujson rejects; continue.
SkipRecord(m) ==
    /\ rpc = "loop"
    /\ batch > 0
    /\ KeyInvalid(m) \/ ValueInvalid(m)
    /\ batch' = batch - 1
    /\ outcome' = IF KeyInvalid(m) THEN "invalid key" ELSE "invalid value"
    /\ UNCHANGED <<registry, offset, ready, position, id_lock, rpc, rvalue, threads, calls>>

\* handle_messages, lines 192-197, with the whole of handle_msg: the record is
\* applied and self.offset follows it.
ApplyRecord(m) ==
    /\ rpc = "loop"
    /\ batch > 0
    /\ ~KeyInvalid(m) /\ ~ValueInvalid(m)
    /\ LET R == HandleMsg(Registry(subjects, schemas, global_schema_id, compatibility),
                          m.key, m.value)
       IN /\ R.exc = "none"
          /\ subjects' = R.subjects
          /\ schemas' = R.schemas
          /\ global_schema_id' = R.global_schema_id
          /\ compatibility' = R.compatibility
    /\ offset' = HeadOffset
    /\ batch' = batch - 1
    /\ outcome' = "handled"
    /\ UNCHANGED <<ready, position, id_lock, rpc, rvalue, threads, calls>>

\* handle_msg raises: the exception leaves both for loops of handle_messages
\* and is caught in run (lines 148-151); the next iteration polls again, from
\* the consumer's position, which is past every record of the abandoned batch.
RaiseRecord(m) ==
    /\ rpc = "loop"
    /\ batch > 0
    /\ ~KeyInvalid(m) /\ ~ValueInvalid(m)
    /\ LET R == HandleMsg(Registry(subjects, schemas, global_schema_id, compatibility),
                          m.key, m.value)
       IN /\ R.exc # "none"
          /\ subjects' = R.subjects
          /\ schemas' = R.schemas
          /\ global_schema_id' = R.global_schema_id
          /\ compatibility' = R.compatibility
          /\ outcome' = R.exc
    /\ batch' = 0
    /\ UNCHANGED <<offset, ready, position, id_lock, rpc, rvalue, threads, calls>>

\* get_schema_id(new_schema) run to its return statement between two records
\* of the reader.
GetSchemaId(t, new_schema) ==
    /\ rpc = "loop"
    /\ calls < MaxCalls
    /\ threads[t].pc = "idle"
    /\ calls' = calls + 1
    /\ LET r == GetSchemaIdResult(schemas, global_schema_id, new_schema)
       IN /\ threads' = [threads EXCEPT ![t] = [Idle EXCEPT !.pc = "done",
                                                            !.arg = new_schema,
                                                            !.result = r]]
          /\ global_schema_id' = IF Matches(schemas, new_schema) # {}
                                 THEN global_schema_id
                                 ELSE r
    /\ UNCHANGED <<subjects, schemas, compatibility, offset, ready, position, batch,
                   outcome, id_lock, rpc, rvalue>>

\* The caller has taken the returned id; the thread serves the next request.
Return(t) ==
    /\ threads[t].pc \in {"done", "error"}
    /\ threads' = [threads EXCEPT ![t] = Idle]
    /\ UNCHANGED <<registry, offset, ready, position, batch, outcome, id_lock, rpc, rvalue, calls>>

\* No request thread is inside get_schema_id.
Quiet == \A t \in Threads : threads[t].pc = "idle"

Call == \E t \in Threads, s \in NewSchemas : GetSchemaId(t, s)

Returns == \E t \in Threads : Return(t)

Skip == \E m \in Msgs : SkipRecord(m)
Apply == \E m \in Msgs : ApplyRecord(m)
Raise == \E m \in Msgs : RaiseRecord(m)

\* The reader thread alone: run() polling and applying the log.
Next ==
    \/ Poll /\ Steady
    \/ Skip /\ Steady
    \/ Apply /\ Steady
    \/ Raise /\ Steady

Spec == Init /\ [][Next]_vars

\* The reader thread alone over a short log.
NextStore ==
    \/ PollUpTo(MaxStoreLog) /\ Steady
    \/ Skip /\ Steady
    \/ Apply /\ Steady
    \/ Raise /\ Steady

SpecStore == Init /\ [][NextStore]_vars

\* The reader thread, and request threads whose calls of get_schema_id run from
\* entry to return while the reader waits in poll.
NextCalls ==
    \/ Quiet /\ PollUpTo(MaxCallLog) /\ Steady
    \/ Quiet /\ Skip /\ Steady
    \/ Quiet /\ Apply /\ Steady
    \/ Quiet /\ Raise /\ Steady
    \/ Quiet /\ batch = 0 /\ Call /\ Steady
    \/ Returns /\ Steady

SpecCalls == Init /\ [][NextCalls]_vars

\* ------------------------------------------------------------------ threads
\* The reader thread and the request threads, statement by statement where they
\* touch self.schemas, self.global_schema_id or self.id_lock.

\* handle_msg reaches line 242 with typed_schema bound.
ReachesLine242(m) ==
    /\ ~KeyInvalid(m) /\ ~ValueInvalid(m)
    /\ m.key.keytype = "SCHEMA"
    /\ m.value # NoValue
    /\ SchemaOutcome(m.value) = "typed"

TypedOf(value) == TypedSchema(SchemaTypeOf(value), value.schema)

\* Lines 194-195, after handle_msg has returned.
Handled ==
    /\ offset' = HeadOffset
    /\ batch' = batch - 1
    /\ outcome' = "handled"
    /\ rpc' = "loop"
    /\ rvalue' = NoValue

\* A record whose handling reads and writes neither self.schemas nor
\* self.global_schema_id: the whole of handle_msg is one step.
ApplyOther(m) ==
    /\ ~ReachesLine242(m)
    /\ ApplyRecord(m)

\* Lines 243-254: the subject is absent and is created with its version entry.
Line245(m) ==
    /\ rpc = "loop" /\ batch > 0
    /\ ReachesLine242(m)
    /\ m.value.subject \notin DOMAIN subjects
    /\ subjects' = Put(subjects, m.value.subject,
                       [compatibility |-> None,
                        schemas |-> (m.value.version :> Entry(TypedOf(m.value), m.value))])
    /\ rvalue' = m.value
    /\ rpc' = "l256"
    /\ UNCHANGED <<schemas, global_schema_id, compatibility, offset, ready, position,
                   batch, outcome, id_lock, threads, calls>>

\* Line 256: self.schemas[value["id"]] = typed_schema, id_lock not taken.
Line256 ==
    /\ rpc = "l256"
    /\ schemas' = StoreSchema(schemas, rvalue.id, TypedOf(rvalue))
    /\ rpc' = "l257"
    /\ UNCHANGED <<subjects, global_schema_id, compatibility, offset, ready, position,
                   batch, outcome, id_lock, rvalue, threads, calls>>

\* Lines 257 and 276: the comparison reads self.global_schema_id, id_lock not taken.
CompareGlobalId(here, write) ==
    /\ rpc = here
    /\ IF rvalue.id > global_schema_id
       THEN /\ rpc' = write
            /\ UNCHANGED <<offset, batch, outcome, rvalue>>
       ELSE Handled
    /\ UNCHANGED <<registry, ready, position, id_lock, threads, calls>>

\* Lines 258 and 277: self.global_schema_id = value["id"], id_lock not taken.
WriteGlobalId(here) ==
    /\ rpc = here
    /\ global_schema_id' = rvalue.id
    /\ Handled
    /\ UNCHANGED <<subjects, schemas, compatibility, ready, position, id_lock, threads, calls>>

Line257 == CompareGlobalId("l257", "l258")
Line258 == WriteGlobalId("l258")

\* Lines 259-264: the subject exists and value["deleted"] is True; line 262
\* writes self.schemas with id_lock not taken.
Line259(m) ==
    /\ rpc = "loop" /\ batch > 0
    /\ ReachesLine242(m)
    /\ m.value.subject \in DOMAIN subjects
    /\ m.value.deleted
    /\ IF m.value.version \notin DOMAIN subjects[m.value.subject].schemas
       THEN /\ schemas' = StoreSchema(schemas, m.value.id, TypedOf(m.value))
            /\ UNCHANGED subjects
       ELSE /\ subjects' = [subjects EXCEPT
                               ![m.value.subject].schemas[m.value.version].deleted = TRUE]
            /\ UNCHANGED schemas
    /\ Handled
    /\ UNCHANGED <<global_schema_id, compatibility, ready, position, id_lock, threads, calls>>

\* Lines 265-272: the subject exists, the version entry is inserted or overwritten.
Line267(m) ==
    /\ rpc = "loop" /\ batch > 0
    /\ ReachesLine242(m)
    /\ m.value.subject \in DOMAIN subjects
    /\ ~m.value.deleted
    /\ subjects' = [subjects EXCEPT ![m.value.subject].schemas =
                       Put(@, m.value.version, Entry(TypedOf(m.value), m.value))]
    /\ rvalue' = m.value
    /\ rpc' = "l274"
    /\ UNCHANGED <<schemas, global_schema_id, compatibility, offset, ready, position,
                   batch, outcome, id_lock, threads, calls>>

\* Line 274: with self.id_lock, entered when the lock is free.
Line274 ==
    /\ rpc = "l274"
    /\ id_lock = None
    /\ id_lock' = "reader"
    /\ rpc' = "l275"
    /\ UNCHANGED <<registry, offset, ready, position, batch, outcome, rvalue, threads, calls>>

\* Line 275: self.schemas[value["id"]] = typed_schema, and the with block ends.
Line275 ==
    /\ rpc = "l275"
    /\ schemas' = StoreSchema(schemas, rvalue.id, TypedOf(rvalue))
    /\ id_lock' = None
    /\ rpc' = "l276"
    /\ UNCHANGED <<subjects, global_schema_id, compatibility, offset, ready, position,
                   batch, outcome, rvalue, threads, calls>>

Line276 == CompareGlobalId("l276", "l277")
Line277 == WriteGlobalId("l277")

\* get_schema_id, lines 123-124: the items view is taken inside the lock; a view
\* holds no copy, it reads self.schemas whenever it is iterated.
Line123(t, new_schema) ==
    /\ threads[t].pc = "idle"
    /\ calls < MaxCalls
    /\ id_lock = None
    /\ threads' = [threads EXCEPT ![t] = [Idle EXCEPT !.pc = "l125", !.arg = new_schema]]
    /\ calls' = calls + 1
    /\ UNCHANGED <<registry, offset, ready, position, batch, outcome, id_lock, rpc, rvalue>>

\* Line 125, for: the iterator is created and notes the size of the dict.
Line125(t) ==
    /\ threads[t].pc = "l125"
    /\ threads' = [threads EXCEPT ![t].pc = "l126", ![t].size = Len(schemas), ![t].cursor = 0]
    /\ UNCHANGED <<registry, offset, ready, position, batch, outcome, id_lock, rpc, rvalue, calls>>

\* Lines 125-127, one turn of the loop: the iterator raises RuntimeError when
\* the dict has changed size, ends after the last item, or yields the next item,
\* which is compared and returned when equal.
Line126(t) ==
    /\ threads[t].pc = "l126"
    /\ LET th == threads[t]
       IN threads' = [threads EXCEPT ![t] =
            IF Len(schemas) # th.size
            THEN [th EXCEPT !.pc = "error"]
            ELSE IF th.cursor = th.size
                 THEN [th EXCEPT !.pc = "l128"]
                 ELSE IF schemas[th.cursor + 1].schema = th.arg
                      THEN [th EXCEPT !.pc = "done", !.result = schemas[th.cursor + 1].id]
                      ELSE [th EXCEPT !.cursor = th.cursor + 1]]
    /\ UNCHANGED <<registry, offset, ready, position, batch, outcome, id_lock, rpc, rvalue, calls>>

\* Line 128: with self.id_lock, entered when the lock is free.
Line128(t) ==
    /\ threads[t].pc = "l128"
    /\ id_lock = None
    /\ id_lock' = t
    /\ threads' = [threads EXCEPT ![t].pc = "l129r"]
    /\ UNCHANGED <<registry, offset, ready, position, batch, outcome, rpc, rvalue, calls>>

\* Line 129, self.global_schema_id += 1: the read.
Line129Read(t) ==
    /\ threads[t].pc = "l129r"
    /\ threads' = [threads EXCEPT ![t].pc = "l129w", ![t].tmp = global_schema_id]
    /\ UNCHANGED <<registry, offset, ready, position, batch, outcome, id_lock, rpc, rvalue, calls>>

\* Line 129, self.global_schema_id += 1: the write.
Line129Write(t) ==
    /\ threads[t].pc = "l129w"
    /\ global_schema_id' = threads[t].tmp + 1
    /\ threads' = [threads EXCEPT ![t].pc = "l130"]
    /\ UNCHANGED <<subjects, schemas, compatibility, offset, ready, position, batch,
                   outcome, id_lock, rpc, rvalue, calls>>

\* Line 130: return self.global_schema_id, and the with block ends.
Line130(t) ==
    /\ threads[t].pc = "l130"
    /\ threads' = [threads EXCEPT ![t].pc = "done", ![t].result = global_schema_id]
    /\ id_lock' = None
    /\ UNCHANGED <<registry, offset, ready, position, batch, outcome, rpc, rvalue, calls>>

ReaderStep ==
    \/ PollUpTo(MaxCallLog) /\ Steady
    \/ Skip /\ Steady
    \/ Raise /\ Steady
    \/ \E m \in Msgs : ApplyOther(m) /\ Steady
    \/ \E m \in Msgs : Line245(m) /\ Steady
    \/ Line256 /\ Steady
    \/ Line257 /\ Steady
    \/ Line258 /\ Steady
    \/ \E m \in Msgs : Line259(m) /\ Steady
    \/ \E m \in Msgs : Line267(m) /\ Steady
    \/ Line274 /\ Steady
    \/ Line275 /\ Steady
    \/ Line276 /\ Steady
    \/ Line277 /\ Steady

RequestStep(t) ==
    \/ \E s \in NewSchemas : Line123(t, s) /\ Steady
    \/ Line125(t) /\ Steady
    \/ Line126(t) /\ Steady
    \/ Line128(t) /\ Steady
    \/ Line129Read(t) /\ Steady
    \/ Line129Write(t) /\ Steady
    \/ Line130(t) /\ Steady
    \/ Return(t) /\ Steady

NextConc == ReaderStep \/ \E t \in Threads : RequestStep(t)

SpecConc == Init /\ [][NextConc]_vars

\* ------------------------------------------------------------------ run and close
\* The reader thread followed through run(), with a coordinator, and close()
\* called from another thread.

\* Records of the log in a run that follows run(): one that stores a schema, one
\* whose handling raises while its subject is absent, one that is skipped and
\* one that changes nothing.
RunMsgs ==
    { m \in Msgs :
        \/ /\ m.key.keytype = "SCHEMA" /\ m.valueBytes = "json"
           /\ m.key.subject = "s1" /\ m.key.version = 1
           /\ m.value.id = 1 /\ m.value.schema = "{}"
        \/ m.key.keytype = "CONFIG" /\ m.valueBytes = "empty" /\ m.key.subject = "s1"
        \/ m.valueBytes = "garbage"
        \/ m.key.keytype = "NOOP" }

\* Answers of master_coordinator.get_master_info(): master, follower, undetermined.
MasterInfo == {"True", "False", None}

\* Lines 166-174: add_offsets, for the answer the coordinator gave.
AddOffsets(info) == info = "True"

\* The offset is put whenever add_offsets is set, ready or not.
QueuePutAlways(q, rdy, add_offsets, off) == IF add_offsets THEN Append(q, off) ELSE q

\* Lines 196-197: if self.ready and add_offsets: self.queue.put(self.offset)
QueuePut(q, rdy, add_offsets, off) == IF rdy /\ add_offsets THEN Append(q, off) ELSE q

\* Line 137: while self.running
While ==
    /\ rloc = "l137"
    /\ rloc' = IF running THEN "l139" ELSE "l153"
    /\ UNCHANGED <<reader_vars, running, admin_client, schema_topic, consumer,
                   are_we_master, queue, compat_vars, tool_vars>>

\* Lines 139-141: init_admin_client() sets the client and returns True, or
\* catches the failure, sleeps and returns False, and run() continues the loop.
InitAdminClient ==
    /\ rloc = "l139"
    /\ IF admin_client = None
       THEN \/ admin_client' = "open" /\ rloc' = "l142"
            \/ admin_client' = admin_client /\ rloc' = "l137"
       ELSE admin_client' = admin_client /\ rloc' = "l142"
    /\ UNCHANGED <<reader_vars, running, schema_topic, consumer, are_we_master, queue,
                   compat_vars, tool_vars>>

\* Lines 142-144: create_schema_topic() sets schema_topic (the topic was created
\* or existed) and returns True, or returns False and run() continues the loop.
CreateSchemaTopic ==
    /\ rloc = "l142"
    /\ IF schema_topic = None
       THEN \/ schema_topic' = "topic" /\ rloc' = "l145"
            \/ schema_topic' = schema_topic /\ rloc' = "l137"
       ELSE schema_topic' = schema_topic /\ rloc' = "l145"
    /\ UNCHANGED <<reader_vars, running, admin_client, consumer, are_we_master, queue,
                   compat_vars, tool_vars>>

\* Lines 145-146: init_consumer() sets the consumer, or KafkaConsumer raises and
\* the except of line 148 takes the loop to its next turn.
InitConsumer ==
    /\ rloc = "l145"
    /\ IF consumer = None
       THEN \/ consumer' = "open" /\ rloc' = "l147"
            \/ consumer' = consumer /\ rloc' = "l137"
       ELSE consumer' = consumer /\ rloc' = "l147"
    /\ UNCHANGED <<reader_vars, running, admin_client, schema_topic, are_we_master, queue,
                   compat_vars, tool_vars>>

\* Lines 147 and 163-174: handle_messages polls, sets ready on an empty poll and
\* asks the coordinator once for the whole batch.
RunPoll ==
    /\ rloc = "l147"
    /\ PollUpTo(MaxRunLog)
    /\ \E info \in MasterInfo : are_we_master' = info
    /\ rloc' = "l176"
    /\ UNCHANGED <<running, admin_client, schema_topic, consumer, queue, compat_vars, tool_vars>>

\* Line 163 raises: consumer.poll fails, the except of line 148 logs it.
PollRaises ==
    /\ rloc = "l147"
    /\ rloc' = "l137"
    /\ UNCHANGED <<reader_vars, running, admin_client, schema_topic, consumer,
                   are_we_master, queue, compat_vars, tool_vars>>

\* Lines 178-190 inside run(): the record is skipped.
RunSkip ==
    /\ rloc = "l176"
    /\ \E m \in RunMsgs : SkipRecord(m)
    /\ UNCHANGED <<run_vars, compat_vars, tool_vars>>

\* Lines 192-197 inside run(): the record is applied, and its offset is put on
\* the queue when the reader is ready and the node was reported master.
RunApply ==
    /\ rloc = "l176"
    /\ \E m \in RunMsgs : ApplyRecord(m)
    /\ queue' = QueuePut(queue, ready, AddOffsets(are_we_master), offset')
    /\ UNCHANGED <<running, admin_client, schema_topic, consumer, rloc, are_we_master,
                   compat_vars, tool_vars>>

\* handle_msg raises inside run(): lines 148-151 catch it, the loop goes on
\* with its next turn.
RunRaise ==
    /\ rloc = "l176"
    /\ \E m \in RunMsgs : RaiseRecord(m)
    /\ rloc' = "l137"
    /\ UNCHANGED <<running, admin_client, schema_topic, consumer, are_we_master, queue,
                   compat_vars, tool_vars>>

\* Lines 176-177 with no record left: handle_messages returns.
HandleMessagesReturns ==
    /\ rloc = "l176"
    /\ batch = 0
    /\ rloc' = "l137"
    /\ UNCHANGED <<reader_vars, running, admin_client, schema_topic, consumer,
                   are_we_master, queue, compat_vars, tool_vars>>

\* close(), lines 132-134, called by another thread.
Close ==
    /\ running
    /\ running' = FALSE
    /\ UNCHANGED <<reader_vars, admin_client, schema_topic, consumer, rloc,
                   are_we_master, queue, compat_vars, tool_vars>>

\* Lines 152-154: the admin client is closed when there is one; when close()
\* raises, the except of line 157 logs it and run() returns.
CloseAdminClient ==
    /\ rloc = "l153"
    /\ IF admin_client = "open"
       THEN \/ admin_client' = "closed" /\ rloc' = "l155"
            \/ admin_client' = "close raised" /\ rloc' = "returned"
       ELSE admin_client' = admin_client /\ rloc' = "l155"
    /\ UNCHANGED <<reader_vars, running, schema_topic, consumer, are_we_master, queue,
                   compat_vars, tool_vars>>

\* Lines 155-160: the consumer is closed when there is one, and run() returns.
CloseConsumer ==
    /\ rloc = "l155"
    /\ IF consumer = "open"
       THEN \/ consumer' = "closed"
            \/ consumer' = "close raised"
       ELSE consumer' = consumer
    /\ rloc' = "returned"
    /\ UNCHANGED <<reader_vars, running, admin_client, schema_topic, are_we_master, queue,
                   compat_vars, tool_vars>>

NextRun ==
    \/ While
    \/ InitAdminClient
    \/ CreateSchemaTopic
    \/ InitConsumer
    \/ RunPoll
    \/ PollRaises
    \/ RunSkip
    \/ RunApply
    \/ RunRaise
    \/ HandleMessagesReturns
    \/ Close
    \/ CloseAdminClient
    \/ CloseConsumer

SpecRun == Init /\ [][NextRun]_vars

\* ------------------------------------------------------------------ check_compatibility
\* SchemaType
SchemaTypes == {"AVRO", "JSONSCHEMA", "PROTOBUF"}

\* CompatibilityModes
Modes ==
    {"BACKWARD", "BACKWARD_TRANSITIVE", "FORWARD", "FORWARD_TRANSITIVE",
     "FULL", "FULL_TRANSITIVE", "NONE"}

\* The schemas check_compatibility is called with: a kind and a parsed schema,
\* named by its text.
CheckedSchemas == { TypedSchema(k, s) : k \in SchemaTypes, s \in {"a", "b"} }

\* What a kind's checker may answer for a reader and a writer: compatible, or
\* incompatible with one or several incompatibility kinds.
CheckerResults ==
    { Compatible,
      Result("incompatible", <<"missing_enum_symbols">>),
      Result("incompatible", <<"missing_enum_symbols", "missing_enum_symbols">>),
      Result("incompatible", <<"name_mismatch">>),
      Result("incompatible", <<"missing_enum_symbols", "name_mismatch">>) }

\* The answer of the kind's checker for (reader, writer): chk.backward is its
\* answer for reader = new and writer = old, chk.forward for the other direction.
GetCompatibility(chk, old, new, reader, writer) ==
    IF reader = new.schema_str /\ writer = old.schema_str THEN chk.backward ELSE chk.forward

\* A call of a kind's checker, as the log of calls records it.
CheckerCall(kind, reader, writer) == [kind |-> kind, reader |-> reader, writer |-> writer]

\* SchemaCompatibilityResult.merged_with: compatible iff both are, otherwise
\* incompatible with the incompatibilities of both, in order.
MergedWith(a, b) ==
    IF a.compatibility = "compatible" /\ b.compatibility = "compatible"
    THEN Compatible
    ELSE Result("incompatible", a.incompatibilities \o b.incompatibilities)

\* check_avro_compatibility, lines 53-59, on the answer of AvroChecker.
CheckAvroCompatibility(raw) ==
    IF /\ raw.compatibility = "incompatible"
       /\ <<"missing_enum_symbols">> # raw.incompatibilities
    THEN raw
    ELSE Compatible

\* check_jsonschema_compatibility, line 63, on the answer of jsonschema_compatibility.
CheckJsonschemaCompatibility(raw) == raw

\* Every pair of schemas passes for one kind.
SameTypeAlways(old, new) == TRUE

\* Line 70, negated: old_schema.schema_type is new_schema.schema_type
SameType(old, new) == old.schema_type = new.schema_type

\* No mode is taken for NONE.
ModeIsNoneNever(mode) == FALSE

\* Line 77: compatibility_mode is CompatibilityModes.NONE
ModeIsNone(mode) == mode = "NONE"

\* check_compatibility(old_schema, new_schema, compatibility_mode), with chk the
\* answers of the kind's checker: the result it returns and the checker calls it
\* makes. A mode no branch takes leaves result unbound at line 138.
CheckCompatibilityResult(old, new, mode, chk) ==
    LET kind == old.schema_type
        Check(reader, writer) ==
            IF kind = "AVRO"
            THEN CheckAvroCompatibility(GetCompatibility(chk, old, new, reader, writer))
            ELSE CheckJsonschemaCompatibility(GetCompatibility(chk, old, new, reader, writer))
        backward == Check(new.schema_str, old.schema_str)
        forward == Check(old.schema_str, new.schema_str)
        backwardCall == CheckerCall(kind, new.schema_str, old.schema_str)
        forwardCall == CheckerCall(kind, old.schema_str, new.schema_str)
    IN IF ~SameType(old, new)
       THEN [result |-> Incompatible("type_mismatch"), calls |-> <<>>]
       ELSE IF ModeIsNone(mode)
       THEN [result |-> Compatible, calls |-> <<>>]
       ELSE IF kind \in {"AVRO", "JSONSCHEMA"}
       THEN CASE mode \in {"BACKWARD", "BACKWARD_TRANSITIVE"} ->
                   [result |-> backward, calls |-> <<backwardCall>>]
              [] mode \in {"FORWARD", "FORWARD_TRANSITIVE"} ->
                   [result |-> forward, calls |-> <<forwardCall>>]
              [] mode \in {"FULL", "FULL_TRANSITIVE"} ->
                   [result |-> MergedWith(backward, forward),
                    calls |-> <<backwardCall, forwardCall>>]
              [] OTHER ->
                   [result |-> Result("UnboundLocalError", <<>>), calls |-> <<>>]
       ELSE [result |-> Incompatible("type_mismatch"), calls |-> <<>>]

\* The arguments of a call and the answers the kind's checker will give: one
\* answer for either direction, the same for both when reader and writer are
\* the same schema.
InitCompat ==
    /\ InitReader
    /\ InitRun
    /\ \E old \in CheckedSchemas, new \in CheckedSchemas :
          args = [old_schema |-> old, new_schema |-> new, compatibility_mode |-> None]
    /\ \E b \in CheckerResults, f \in CheckerResults :
          /\ args.old_schema.schema_str = args.new_schema.schema_str => b = f
          /\ checker = [backward |-> b, forward |-> f]
    /\ checker_calls = <<>>
    /\ result = NoResult
    /\ NoBackup /\ NoRetry /\ NoAuth

\* check_compatibility is called in the mode given.
CheckCompatibility(mode) ==
    /\ result = NoResult
    /\ LET r == CheckCompatibilityResult(args.old_schema, args.new_schema, mode, checker)
       IN /\ result' = r.result
          /\ checker_calls' = r.calls
    /\ args' = [args EXCEPT !.compatibility_mode = mode]
    /\ UNCHANGED <<reader_vars, run_vars, tool_vars, checker>>

\* check_avro_compatibility(reader_schema=new, writer_schema=old) is called on
\* two Avro schemas.
CallCheckAvroCompatibility ==
    /\ result = NoResult
    /\ args.old_schema.schema_type = "AVRO" /\ args.new_schema.schema_type = "AVRO"
    /\ result' = CheckAvroCompatibility(
                     GetCompatibility(checker, args.old_schema, args.new_schema,
                                      args.new_schema.schema_str, args.old_schema.schema_str))
    /\ checker_calls' = <<CheckerCall("AVRO", args.new_schema.schema_str,
                                      args.old_schema.schema_str)>>
    /\ UNCHANGED <<reader_vars, run_vars, tool_vars, args, checker>>

NextCompat ==
    \/ \E mode \in Modes : CheckCompatibility(mode)
    \/ CallCheckAvroCompatibility

SpecCompat == InitCompat /\ [][NextCompat]_vars

\* ------------------------------------------------------------------ backup
\* SchemaBackup.create and SchemaBackup.restore_backup (src/karapace/backup/api.py).
MaxWatermark == 3    \* highest high watermark of the topic partition
MaxStart == 1        \* highest offset of the first record of the partition
MaxPoll == 2         \* records returned by one poll of the backup consumer
MaxStream == 3       \* instructions a backup reader yields

Topics == {"t1", "t2"}
PartitionCounts == {1, 2}
BackupVersions == {"V2", "V3"}

\* The instructions of karapace.backup.backends.reader.
RestoreTopic(name) == [type |-> "RestoreTopic", topic |-> name]

ProducerSend(topic_name) == [type |-> "ProducerSend", topic |-> topic_name]

Instructions == { RestoreTopic(t) : t \in Topics } \cup { ProducerSend(t) : t \in Topics }

Streams == UNION { [1..n -> Instructions] : n \in 0..MaxStream }

\* __check_partition_count: partition_count != 1 raises.
PartitionCountOkAny(n) == n >= 1

PartitionCountOk(n) == n = 1

\* _consume_records, line 239: start_offset >= end_offset raises EmptyPartition.
IsEmptyPartitionBelow(start, end) == start > end

IsEmptyPartition(start, end) == start >= end

\* _consume_records, line 242: high watermark to actual end offset.
ActualEndOffsetKeepsWatermark(end) == end

ActualEndOffset(end) == end - 1

\* A loop of the same kind that is never left at line 251.
TargetReachedNever(last, end) == FALSE

\* _consume_records, line 251: the loop ends with last_offset >= end_offset.
TargetReachedBeyond(last, end) == last > end

TargetReached(last, end) == last >= end

\* The with statement around kafka_consumer_from_config / kafka_producer_from_config
\* is left: the client is closed.
ClientExit == "closed"

\* contextlib.ExitStack leaves its with statement: every context entered is exited.
ExitStackCloseLast(ps) ==
    [i \in DOMAIN ps |-> IF i = Len(ps) THEN [ps[i] EXCEPT !.state = ClientExit] ELSE ps[i]]

ExitStackClose(ps) == [i \in DOMAIN ps |-> [ps[i] EXCEPT !.state = ClientExit]]

\* restore_backup, line 367: producer is None.
NoProducerNever(p) == FALSE

NoProducer(p) == p = 0

\* A step of create() or restore_backup(): the registry, the retried topic
\* creation and the authorizer are not involved.
OnlyBackup == UNCHANGED <<reader_vars, run_vars, compat_vars, retry_vars, auth_vars>>

\* SchemaBackup(config, backup_path) and the call of create(version): the topic
\* partition holds the records log_start .. high_watermark - 1.
InitCreate ==
    /\ command = "create"
    /\ backup_version \in BackupVersions
    /\ backup_location \in {"-", "missing"}
    /\ bloc = "l397" /\ backup_exception = None /\ partition_count = 0
    /\ caught = None /\ backup_consumer = None
    /\ log_start \in 0..MaxStart
    /\ high_watermark \in log_start..MaxWatermark
    /\ start_offset = 0 /\ end_offset = 0 /\ watermark = -1 /\ last_offset = 0
    /\ fetch_offset = log_start /\ records = <<>> /\ record = -1 /\ stored = <<>>
    /\ polls = 0 /\ finalized = 0 /\ metadata = 0 /\ stale = NoStale
    /\ stream = <<>> /\ reader_raises = FALSE /\ ipos = 0
    /\ producers = <<>> /\ producer = 0 /\ sent = <<>>

\* SchemaBackup(config, backup_path) and the call of restore_backup(): the
\* backup's reader will yield stream, and then stop or raise.
InitRestore ==
    /\ command = "restore"
    /\ backup_version \in BackupVersions
    /\ backup_location \in {"-", "missing", "file"}
    /\ bloc = "l337" /\ backup_exception = None /\ partition_count = 0
    /\ caught = None /\ backup_consumer = None
    /\ log_start = 0 /\ high_watermark = 0
    /\ start_offset = 0 /\ end_offset = 0 /\ watermark = -1 /\ last_offset = 0
    /\ fetch_offset = 0 /\ records = <<>> /\ record = -1 /\ stored = <<>>
    /\ polls = 0 /\ finalized = 0 /\ metadata = 0 /\ stale = NoStale
    /\ stream \in Streams /\ reader_raises \in BOOLEAN /\ ipos = 0
    /\ producers = <<>> /\ producer = 0 /\ sent = <<>>

InitBackup ==
    /\ InitReader /\ InitRun /\ NoCheck /\ NoRetry /\ NoAuth
    /\ InitCreate \/ InitRestore

\* create, lines 397-403: format version 3 does not write to stdout.
CreateValidate ==
    /\ command = "create" /\ bloc = "l397"
    /\ IF backup_version = "V3" /\ backup_location = "-"
         THEN bloc' = "raised" /\ backup_exception' = "RuntimeError"
         ELSE bloc' = "l197" /\ UNCHANGED backup_exception
    /\ UNCHANGED <<call_vars, partition_count, create_vars, restore_vars>>
    /\ OnlyBackup

\* _consumer, line 197: the consumer is created.
OpenConsumer ==
    /\ command = "create" /\ bloc = "l197"
    /\ backup_consumer' = "open"
    /\ bloc' = "l198"
    /\ UNCHANGED <<call_vars, backup_exception, partition_count, caught, log_start,
                   high_watermark, start_offset, end_offset, watermark, last_offset,
                   fetch_offset, records, record, stored, polls, finalized, metadata,
                   stale, restore_vars>>
    /\ OnlyBackup

\* _consumer, line 198: the partitions of the topic are counted; PartitionCountError
\* leaves the with statement of line 197 and create().
CheckConsumerPartitions ==
    /\ command = "create" /\ bloc = "l198"
    /\ \E n \in PartitionCounts :
          /\ partition_count' = n
          /\ IF PartitionCountOk(n)
               THEN bloc' = "l227" /\ UNCHANGED <<backup_exception, backup_consumer>>
               ELSE /\ bloc' = "raised"
                    /\ backup_exception' = "PartitionCountError"
                    /\ backup_consumer' = ClientExit
    /\ UNCHANGED <<call_vars, caught, log_start, high_watermark, start_offset, end_offset,
                   watermark, last_offset, fetch_offset, records, record, stored, polls,
                   finalized, metadata, stale, restore_vars>>
    /\ OnlyBackup

\* create, lines 417-421, _write_partition, lines 263-270, and _consume_records up to
\* line 242: the offsets are read; EmptyPartition is caught at line 429 and create()
\* returns.
ReadOffsets ==
    /\ command = "create" /\ bloc = "l227"
    /\ start_offset' = log_start
    /\ watermark' = high_watermark
    /\ last_offset' = log_start
    /\ IF IsEmptyPartition(log_start, high_watermark)
         THEN /\ end_offset' = high_watermark
              /\ caught' = "EmptyPartition"
              /\ backup_consumer' = ClientExit
              /\ bloc' = "returned"
         ELSE /\ end_offset' = ActualEndOffset(high_watermark)
              /\ bloc' = "l245"
              /\ UNCHANGED <<caught, backup_consumer>>
    /\ UNCHANGED <<call_vars, backup_exception, partition_count, log_start, high_watermark,
                   fetch_offset, records, record, stored, polls, finalized, metadata, stale,
                   restore_vars>>
    /\ OnlyBackup

\* _consume_records, lines 245-247: one poll; no record raises StaleConsumerError,
\* which leaves the writer, the consumer and create().
PollRecords ==
    /\ command = "create" /\ bloc = "l245"
    /\ polls' = polls + 1
    /\ \E n \in 0..Min(MaxPoll, high_watermark - fetch_offset) :
          IF n = 0
            THEN /\ stale' = StaleConsumerError(start_offset, end_offset, last_offset)
                 /\ backup_exception' = "StaleConsumerError"
                 /\ backup_consumer' = ClientExit
                 /\ bloc' = "raised"
                 /\ UNCHANGED <<records, fetch_offset>>
            ELSE /\ records' = [i \in 1..n |-> fetch_offset + i - 1]
                 /\ fetch_offset' = fetch_offset + n
                 /\ bloc' = "l248"
                 /\ UNCHANGED <<stale, backup_exception, backup_consumer>>
    /\ UNCHANGED <<call_vars, partition_count, caught, log_start, high_watermark,
                   start_offset, end_offset, watermark, last_offset, record, stored,
                   finalized, metadata, restore_vars>>
    /\ OnlyBackup

\* _consume_records, lines 248-249, and _write_partition, lines 270-271: the next
\* record of the poll is yielded and stored.
StoreRecord ==
    /\ command = "create" /\ bloc = "l248"
    /\ records # <<>>
    /\ record' = Head(records)
    /\ stored' = Append(stored, Head(records))
    /\ records' = Tail(records)
    /\ UNCHANGED <<call_vars, bloc, backup_exception, partition_count, caught,
                   backup_consumer, log_start, high_watermark, start_offset, end_offset,
                   watermark, last_offset, fetch_offset, polls, finalized, metadata, stale,
                   restore_vars>>
    /\ OnlyBackup

\* _consume_records, lines 250-252: after the last record of the poll.
EndOfRecords ==
    /\ command = "create" /\ bloc = "l248"
    /\ records = <<>>
    /\ last_offset' = record
    /\ bloc' = IF TargetReached(record, end_offset) THEN "l273" ELSE "l245"
    /\ UNCHANGED <<call_vars, backup_exception, partition_count, caught, backup_consumer,
                   log_start, high_watermark, start_offset, end_offset, watermark,
                   fetch_offset, records, record, stored, polls, finalized, metadata, stale,
                   restore_vars>>
    /\ OnlyBackup

\* _write_partition, lines 273-277: the partition is finalized, and create() leaves
\* the with statement of the consumer.
FinalizePartition ==
    /\ command = "create" /\ bloc = "l273"
    /\ finalized' = finalized + 1
    /\ backup_consumer' = ClientExit
    /\ bloc' = "l436"
    /\ UNCHANGED <<call_vars, backup_exception, partition_count, caught, log_start,
                   high_watermark, start_offset, end_offset, watermark, last_offset,
                   fetch_offset, records, record, stored, polls, metadata, stale,
                   restore_vars>>
    /\ OnlyBackup

\* create, lines 436-452.
StoreMetadata ==
    /\ command = "create" /\ bloc = "l436"
    /\ metadata' = metadata + 1
    /\ bloc' = "returned"
    /\ UNCHANGED <<call_vars, backup_exception, partition_count, caught, backup_consumer,
                   log_start, high_watermark, start_offset, end_offset, watermark,
                   last_offset, fetch_offset, records, record, stored, polls, finalized,
                   stale, restore_vars>>
    /\ OnlyBackup

\* A producer of the cluster appends a record to the topic while the backup consumes.
ProduceRecord ==
    /\ command = "create" /\ bloc \in {"l245", "l248"}
    /\ high_watermark < MaxWatermark
    /\ high_watermark' = high_watermark + 1
    /\ UNCHANGED <<call_vars, bloc, backup_exception, partition_count, caught,
                   backup_consumer, log_start, start_offset, end_offset, watermark,
                   last_offset, fetch_offset, records, record, stored, polls, finalized,
                   metadata, stale, restore_vars>>
    /\ OnlyBackup

\* restore_backup, lines 337-355: the location is a path that exists.
RestoreValidate ==
    /\ command = "restore" /\ bloc = "l337"
    /\ IF backup_location = "-"
         THEN bloc' = "raised" /\ backup_exception' = "NotImplementedError"
         ELSE IF backup_location = "missing"
                THEN bloc' = "raised" /\ backup_exception' = "BackupError"
                ELSE bloc' = "l362" /\ UNCHANGED backup_exception
    /\ UNCHANGED <<call_vars, partition_count, create_vars, restore_vars>>
    /\ OnlyBackup

\* The instruction the loop of line 362 is at.
Instruction == stream[ipos + 1]

\* restore_backup, lines 363-364, and _handle_restore_topic: the topic is created
\* if need be, or _maybe_create_topic raises.
HandleRestoreTopic ==
    /\ command = "restore" /\ bloc = "l362"
    /\ ipos < Len(stream) /\ Instruction.type = "RestoreTopic"
    /\ \/ bloc' = "l211" /\ UNCHANGED backup_exception
       \/ bloc' = "exit" /\ backup_exception' = "KafkaError"
    /\ UNCHANGED <<call_vars, partition_count, create_vars, restore_vars>>
    /\ OnlyBackup

\* restore_backup, line 365, and _producer, line 211: the producer is created.
OpenProducer ==
    /\ command = "restore" /\ bloc = "l211"
    /\ producers' = Append(producers, [topic |-> Instruction.topic, state |-> "open"])
    /\ bloc' = "l212"
    /\ UNCHANGED <<call_vars, backup_exception, partition_count, create_vars, stream,
                   reader_raises, ipos, producer, sent>>
    /\ OnlyBackup

\* _producer, lines 212-213: the partitions of the topic are counted; the producer
\* is yielded to the ExitStack, or PartitionCountError leaves the with statement of
\* line 211.
CheckProducerPartitions ==
    /\ command = "restore" /\ bloc = "l212"
    /\ \E n \in PartitionCounts :
          /\ partition_count' = n
          /\ IF PartitionCountOk(n)
               THEN /\ producer' = Len(producers)
                    /\ ipos' = ipos + 1
                    /\ bloc' = "l362"
                    /\ UNCHANGED <<backup_exception, producers>>
               ELSE /\ producers' = [producers EXCEPT ![Len(producers)].state = ClientExit]
                    /\ backup_exception' = "PartitionCountError"
                    /\ bloc' = "exit"
                    /\ UNCHANGED <<producer, ipos>>
    /\ UNCHANGED <<call_vars, create_vars, stream, reader_raises, sent>>
    /\ OnlyBackup

\* restore_backup, lines 366-369, and _handle_producer_send.
HandleProducerSend ==
    /\ command = "restore" /\ bloc = "l362"
    /\ ipos < Len(stream) /\ Instruction.type = "ProducerSend"
    /\ IF NoProducer(producer)
         THEN /\ backup_exception' = "RuntimeError"
              /\ bloc' = "exit"
              /\ UNCHANGED <<sent, ipos>>
         ELSE /\ sent' = Append(sent, [instruction |-> ipos + 1, producer |-> producer])
              /\ ipos' = ipos + 1
              /\ UNCHANGED <<backup_exception, bloc>>
    /\ UNCHANGED <<call_vars, partition_count, create_vars, stream, reader_raises,
                   producers, producer>>
    /\ OnlyBackup

\* restore_backup, line 362: backend.read is exhausted, or raises.
EndOfStream ==
    /\ command = "restore" /\ bloc = "l362"
    /\ ipos = Len(stream)
    /\ bloc' = "exit"
    /\ backup_exception' = IF reader_raises THEN "ReaderError" ELSE None
    /\ UNCHANGED <<call_vars, partition_count, create_vars, restore_vars>>
    /\ OnlyBackup

\* restore_backup, line 359: the with statement of the ExitStack is left.
ExitStackExit ==
    /\ command = "restore" /\ bloc = "exit"
    /\ producers' = ExitStackClose(producers)
    /\ bloc' = IF backup_exception = None THEN "returned" ELSE "raised"
    /\ UNCHANGED <<call_vars, backup_exception, partition_count, create_vars, stream,
                   reader_raises, ipos, producer, sent>>
    /\ OnlyBackup

NextBackup ==
    \/ CreateValidate
    \/ OpenConsumer
    \/ CheckConsumerPartitions
    \/ ReadOffsets
    \/ PollRecords
    \/ StoreRecord
    \/ EndOfRecords
    \/ FinalizePartition
    \/ StoreMetadata
    \/ ProduceRecord
    \/ RestoreValidate
    \/ HandleRestoreTopic
    \/ OpenProducer
    \/ CheckProducerPartitions
    \/ HandleProducerSend
    \/ EndOfStream
    \/ ExitStackExit

SpecBackup == InitBackup /\ [][NextBackup]_vars

\* ------------------------------------------------------------------ retried topic creation
\* _maybe_create_topic and _admin (src/karapace/backup/api.py), both wrapped in
\* tenacity.retry; time is counted in seconds.
AdminStopAfterDelay == 60
AdminWaitFixed == 1
TopicStopAfterDelay == 60
TopicWaitFixed == 1
MaxAttemptSeconds == 2   \* seconds one attempt takes at most

Durations == 0..MaxAttemptSeconds
Errors == {"KafkaError", "OtherError"}
RestoreVersions == {"V1", "V2", "V3"}

\* retry=retry_if_exception_type(KafkaError)
RetryIfAnyException(exc) == TRUE

RetryIfException(exc) == exc = "KafkaError"

\* stop=stop_after_delay(max_delay): seconds_since_start >= max_delay, measured when
\* the attempt ended.
StopAfterDelay(start, now, max_delay) == now - start >= max_delay

\* What retry(...) does after an attempt that raised exc: "raise" (the exception is
\* not retried, or the deadline has passed; reraise=True), or "sleep" (before_sleep
\* is called, then wait_fixed).
Iter(exc, start, now, max_delay) ==
    IF ~RetryIfException(exc) THEN "raise"
    ELSE IF StopAfterDelay(start, now, max_delay) THEN "raise"
         ELSE "sleep"

\* before_sleep: "{description} failed ({exception}), retrying... (Ctrl+C to abort)".
BeforeSleep(description, exc) ==
    [description |-> description, result |-> "failed", exception |-> exc]

\* A step of _maybe_create_topic.
OnlyRetry == UNCHANGED <<reader_vars, run_vars, compat_vars, backup_vars, auth_vars>>

\* The call _maybe_create_topic(config, name, backup_version).
InitRetry ==
    /\ InitReader /\ InitRun /\ NoCheck /\ NoBackup /\ NoAuth
    /\ clock = 0
    /\ topic_args \in [backup_version : RestoreVersions, names_differ : BOOLEAN]
    /\ topic_start = 0 /\ admin_start = 0
    /\ tloc = "l152" /\ retry_exception = None /\ stderr = <<>>
    /\ backup_admin = None
    /\ topic_state \in {"absent", "present"}

\* An attempt of _maybe_create_topic ended at time now with exc: the retry of lines
\* 144-150 sleeps and starts the next attempt, or re-raises.
TopicFails(exc, now) ==
    IF Iter(exc, topic_start, now, TopicStopAfterDelay) = "sleep"
      THEN /\ stderr' = <<BeforeSleep("Schemas topic creation", exc)>>
           /\ clock' = now + TopicWaitFixed
           /\ tloc' = "l152"
           /\ UNCHANGED retry_exception
      ELSE /\ stderr' = <<>>
           /\ clock' = now
           /\ tloc' = "raised"
           /\ retry_exception' = exc

\* _maybe_create_topic, lines 152-170: an attempt starts; with differing names
\* nothing is created, otherwise _admin is entered.
TopicAttempt ==
    /\ tloc = "l152"
    /\ stderr' = <<>>
    /\ IF topic_args.backup_version \in {"V1", "V2"} /\ topic_args.names_differ
         THEN tloc' = "returned" /\ UNCHANGED admin_start
         ELSE tloc' = "l136" /\ admin_start' = clock
    /\ UNCHANGED <<clock, topic_args, topic_start, retry_exception, backup_admin, topic_state>>
    /\ OnlyRetry

\* _admin, lines 130-136: one attempt of kafka_admin_from_config, taking d seconds,
\* and what the retry makes of it.
AdminAttempt(attempt, d) ==
    /\ tloc = "l136"
    /\ IF attempt = "ok"
         THEN /\ backup_admin' = "open"
              /\ clock' = clock + d
              /\ tloc' = "l172"
              /\ stderr' = <<>>
              /\ UNCHANGED retry_exception
         ELSE /\ UNCHANGED backup_admin
              /\ IF Iter(attempt, admin_start, clock + d, AdminStopAfterDelay) = "sleep"
                   THEN /\ stderr' = <<BeforeSleep("Kafka Admin client creation", attempt)>>
                        /\ clock' = clock + d + AdminWaitFixed
                        /\ UNCHANGED <<tloc, retry_exception>>
                   ELSE TopicFails(attempt, clock + d)
    /\ UNCHANGED <<topic_args, topic_start, admin_start, topic_state>>
    /\ OnlyRetry

\* _maybe_create_topic, lines 171-184, and _admin, lines 138-141: create_topics,
\* taking d seconds; the admin client is closed whatever happens.
CreateTopics(attempt, d) ==
    /\ tloc = "l172"
    /\ backup_admin' = "closed"
    /\ attempt = "created" => topic_state = "absent"
    /\ attempt = "TopicAlreadyExistsError" => topic_state = "present"
    /\ topic_state' = IF attempt = "created" THEN "present" ELSE topic_state
    /\ IF attempt \in {"created", "TopicAlreadyExistsError"}
         THEN /\ clock' = clock + d
              /\ tloc' = "returned"
              /\ stderr' = <<>>
              /\ UNCHANGED retry_exception
         ELSE TopicFails(attempt, clock + d)
    /\ UNCHANGED <<topic_args, topic_start, admin_start>>
    /\ OnlyRetry

NextRetry ==
    \/ TopicAttempt
    \/ \E attempt \in {"ok"} \cup Errors, d \in Durations : AdminAttempt(attempt, d)
    \/ \E attempt \in {"created", "TopicAlreadyExistsError"} \cup Errors, d \in Durations :
          CreateTopics(attempt, d)

SpecRetry == InitRetry /\ [][NextRetry]_vars

\* ------------------------------------------------------------------ auth file
\* HTTPAuthorizer (src/karapace/auth.py): the first load of the auth file and the
\* task that reloads it.
MaxMtime == 3        \* highest modification time of the auth file

HashAlgorithms == {"sha1", "sha256", "sha512", "scrypt"}
Operations == {"Read", "Write"}
Patterns == {"Subject:.*"}           \* the resources of this model that re.compile accepts

UserOf(username, algorithm) == [username |-> username, algorithm |-> algorithm]

AclOf(username, operation, resource) ==
    [username |-> username, operation |-> operation, resource |-> resource]

AuthFiles ==
    { AuthFile("json", <<UserOf("alice", "sha512")>>, <<AclOf("alice", "Read", "Subject:.*")>>),
      AuthFile("json", <<UserOf("alice", "scrypt"), UserOf("bob", "sha256")>>,
               <<AclOf("bob", "Write", "Subject:.*")>>),
      AuthFile("json", <<UserOf("bob", "md5")>>, <<AclOf("bob", "Read", "Subject:.*")>>),
      AuthFile("json", <<UserOf("bob", "sha1")>>, <<AclOf("bob", "Admin", "Subject:.*")>>),
      AuthFile("json", <<UserOf("bob", "sha1")>>, <<AclOf("bob", "Read", "Subject:(")>>),
      AuthFile("not json", <<>>, <<>>),
      AuthFile("unreadable", <<>>, <<>>),
      NoFile }

\* The dict comprehension of lines 110-118: username -> User, the last entry of a
\* name winning; HashAlgorithm(...) raises for an unknown algorithm.
UsersValid(users) == \A i \in DOMAIN users : users[i].algorithm \in HashAlgorithms

UsersOf(users) ==
    [name \in { users[i].username : i \in DOMAIN users } |->
        LET last == CHOOSE i \in DOMAIN users :
                        /\ users[i].username = name
                        /\ \A j \in DOMAIN users : users[j].username = name => j <= i
        IN users[last]]

\* The list comprehension of lines 119-122: Operation(...) raises for an unknown
\* operation, re.compile for a bad pattern.
PermissionsValid(perms) ==
    \A i \in DOMAIN perms : perms[i].operation \in Operations /\ perms[i].resource \in Patterns

\* _load_authfile with the assignment of line 123 made before the permissions are built.
LoadAuthfileAssignsEarly(file, old_userdb, old_permissions) ==
    IF file.state # "json" \/ ~UsersValid(file.users)
      THEN [raised |-> TRUE, userdb |-> old_userdb, permissions |-> old_permissions]
    ELSE IF ~PermissionsValid(file.permissions)
      THEN [raised |-> TRUE, userdb |-> UsersOf(file.users), permissions |-> old_permissions]
    ELSE [raised |-> FALSE, userdb |-> UsersOf(file.users), permissions |-> file.permissions]

\* _load_authfile: whether InvalidConfiguration is raised, and self.userdb and
\* self.permissions afterwards; both tables are built before either is assigned.
LoadAuthfile(file, old_userdb, old_permissions) ==
    IF file.state # "json" \/ ~UsersValid(file.users) \/ ~PermissionsValid(file.permissions)
      THEN [raised |-> TRUE, userdb |-> old_userdb, permissions |-> old_permissions]
      ELSE [raised |-> FALSE, userdb |-> UsersOf(file.users), permissions |-> file.permissions]

\* A step of the authorizer or of whoever edits the auth file.
OnlyAuth == UNCHANGED <<reader_vars, run_vars, compat_vars, backup_vars, retry_vars>>

\* Before HTTPAuthorizer(filename) is called: the file as it is on disk.
InitAuth ==
    /\ InitReader /\ InitRun /\ NoCheck /\ NoBackup /\ NoRetry
    /\ authfile \in AuthFiles
    /\ mtime = 1
    /\ userdb = <<>> /\ permissions = <<>>
    /\ last_loaded = 0 /\ refresh_task = None
    /\ authorizer = "idle" /\ auth_logged = None

\* HTTPAuthorizer.__init__: the first load.
Construct ==
    /\ authorizer = "idle"
    /\ LET load == LoadAuthfile(authfile, userdb, permissions)
       IN /\ authorizer' = IF load.raised THEN "InvalidConfiguration" ELSE "constructed"
          /\ userdb' = load.userdb
          /\ permissions' = load.permissions
    /\ UNCHANGED <<authfile, mtime, last_loaded, refresh_task, auth_logged>>
    /\ OnlyAuth

\* start_refresh_task, and _refresh_authfile up to its first sleep: line 83 reads
\* the modification time, outside the try statement.
StartRefreshTask ==
    /\ authorizer = "constructed" /\ refresh_task = None
    /\ IF authfile.state = "absent"
         THEN refresh_task' = "failed" /\ UNCHANGED last_loaded
         ELSE refresh_task' = "running" /\ last_loaded' = mtime
    /\ UNCHANGED <<authfile, mtime, userdb, permissions, authorizer, auth_logged>>
    /\ OnlyAuth

\* _refresh_authfile, lines 85-96: one round of the loop after its sleep.
RefreshTick ==
    /\ refresh_task = "running"
    /\ IF authfile.state = "absent"
         THEN /\ auth_logged' = "FileNotFoundError"
              /\ UNCHANGED <<userdb, permissions, last_loaded>>
         ELSE IF last_loaded < mtime
                THEN LET load == LoadAuthfile(authfile, userdb, permissions)
                     IN /\ userdb' = load.userdb
                        /\ permissions' = load.permissions
                        /\ last_loaded' = IF load.raised THEN last_loaded ELSE mtime
                        /\ auth_logged' = IF load.raised THEN "InvalidConfiguration"
                                          ELSE auth_logged
                ELSE UNCHANGED <<userdb, permissions, last_loaded, auth_logged>>
    /\ UNCHANGED <<authfile, mtime, refresh_task, authorizer>>
    /\ OnlyAuth

\* HTTPAuthorizer.close: the task is cancelled in its sleep and returns.
CloseAuthorizer ==
    /\ refresh_task = "running"
    /\ refresh_task' = "cancelled"
    /\ UNCHANGED <<authfile, mtime, userdb, permissions, last_loaded, authorizer, auth_logged>>
    /\ OnlyAuth

\* Someone rewrites the auth file.
WriteFile(file) ==
    /\ authorizer = "constructed"
    /\ file.state # "absent"
    /\ mtime < MaxMtime
    /\ authfile' = file
    /\ mtime' = mtime + 1
    /\ UNCHANGED <<userdb, permissions, last_loaded, refresh_task, authorizer, auth_logged>>
    /\ OnlyAuth

\* Someone removes the auth file.
RemoveFile ==
    /\ authorizer = "constructed"
    /\ authfile.state # "absent"
    /\ authfile' = NoFile
    /\ UNCHANGED <<mtime, userdb, permissions, last_loaded, refresh_task, authorizer,
                   auth_logged>>
    /\ OnlyAuth

NextAuth ==
    \/ Construct
    \/ StartRefreshTask
    \/ RefreshTick
    \/ CloseAuthorizer
    \/ \E file \in AuthFiles : WriteFile(file)
    \/ RemoveFile

SpecAuth == InitAuth /\ [][NextAuth]_vars

\* ------------------------------------------------------------------ claims
\* The loop of handle_messages passes the record m in this step.
RecordStep(m) == SkipRecord(m) \/ ApplyRecord(m) \/ RaiseRecord(m)

Exceptions == {"KeyError", "TypeError", "UnboundLocalError"}

\* Ids stored in the version entries of all subjects, deleted or not.
VersionIds ==
    { subjects[s].schemas[v].id : <<s, v>> \in
        { p \in (DOMAIN subjects) \X Versions : p[2] \in DOMAIN subjects[p[1]].schemas } }

\* m has a decoded key of type SCHEMA and a decoded, non-null value.
IsSchemaValue(m) ==
    /\ m.keyBytes = "json" /\ m.valueBytes = "json"
    /\ m.key.keytype = "SCHEMA"

\* The value of m names a known schema type and, for AVRO and JSON, carries
\* text that is JSON.
IsWellTyped(m) ==
    LET ty == IF m.value.schemaType = None THEN "AVRO" ELSE m.value.schemaType
    IN \/ ty = "PROTOBUF"
       \/ ty \in {"AVRO", "JSON"} /\ m.value.schema \in {"{}", "[]"}

\* C1: after every applied record, global_schema_id is at least every key of
\* schemas_by_id.
C1_GlobalIdBoundsSchemaIds ==
    \A id \in SchemaIds(schemas) : global_schema_id >= id

\* C2: after every applied record, every id stored in a version entry of any
\* subject, deleted or not, is a key of schemas_by_id.
C2_VersionIdsInSchemas == VersionIds \subseteq SchemaIds(schemas)

\* C2 witness: a subject holds a deleted and a live version entry, with two
\* different ids.
C2_Witness ==
    \E s \in DOMAIN subjects :
        /\ DOMAIN subjects[s].schemas = {1, 2}
        /\ subjects[s].schemas[1].deleted
        /\ ~subjects[s].schemas[2].deleted
        /\ subjects[s].schemas[1].id # subjects[s].schemas[2].id

\* C3 as stated: global_schema_id never decreases; a SCHEMA record with an id
\* above it raises it to that id, every other record leaves it unchanged.
C3_AnySchemaRecordRaises ==
    [][ /\ global_schema_id' >= global_schema_id
        /\ \A m \in Msgs : RecordStep(m) =>
              IF IsSchemaValue(m) /\ m.value.id > global_schema_id
              THEN global_schema_id' = m.value.id
              ELSE global_schema_id' = global_schema_id ]_vars

\* m is a SCHEMA record that stores a version entry: well typed, for a subject
\* that is absent or with deleted not true.
StoresEntry(m) ==
    /\ IsSchemaValue(m) /\ IsWellTyped(m)
    /\ m.value.subject \notin DOMAIN subjects \/ ~m.value.deleted

\* m is a record that does not write schemas_by_id: not a SCHEMA value, a value
\* that is skipped or of unknown type, or deleted = true for a stored version.
WritesNoSchema(m) ==
    \/ ~IsSchemaValue(m)
    \/ ~IsWellTyped(m)
    \/ /\ m.value.subject \in DOMAIN subjects
       /\ m.value.deleted
       /\ m.value.version \in DOMAIN subjects[m.value.subject].schemas

\* C3 amended: global_schema_id never decreases; a SCHEMA record that stores a
\* version entry raises it to its id when that id is greater and leaves it
\* unchanged otherwise; a record that does not write schemas_by_id leaves it
\* unchanged.
C3_GlobalIdMonotonic ==
    [][ /\ global_schema_id' >= global_schema_id
        /\ global_schema_id' # global_schema_id =>
              \A m \in Msgs : WritesNoSchema(m) => ~RecordStep(m)
        /\ \A m \in Msgs :
              ( /\ global_schema_id' # IF m.value.id > global_schema_id
                                       THEN m.value.id
                                       ELSE global_schema_id
                /\ StoresEntry(m) ) => ~RecordStep(m) ]_vars

\* C3 witness: id 2 was stored first and raised global_schema_id to 2, id 1 was
\* stored after it in a version entry and left it at 2.
C3_Witness ==
    /\ Len(schemas) = 2 /\ schemas[1].id = 2 /\ schemas[2].id = 1
    /\ global_schema_id = 2
    /\ VersionIds = {1, 2}

\* C4: a polled record whose key or value is not valid JSON is skipped: the
\* registry is unchanged, no exception leaves handle_messages, and the loop
\* goes on to the next record of the batch.
C4_MalformedSkipped ==
    [][ \A m \in Msgs :
          (m.keyBytes = "garbage" \/ m.valueBytes = "garbage") /\ RecordStep(m) =>
              /\ UNCHANGED registry
              /\ outcome' \in {"invalid key", "invalid value"}
              /\ batch' = batch - 1 ]_vars

\* C4 witness: a record with a malformed value was skipped after others had
\* built up a registry, and a later record of the same batch is pending.
C4_Witness ==
    /\ outcome = "invalid value"
    /\ batch > 0
    /\ schemas # <<>>

\* C5: after handle_messages has gone through a polled batch, offset is the
\* offset of the last record of the batch, also when that record was skipped.
C5_OffsetFollowsBatch ==
    (batch = 0 /\ position > 0 /\ outcome \notin Exceptions) => offset = position - 1

\* C6: a CONFIG record naming a subject, with a null value, is ignored when the
\* subject is absent (normal return, registry unchanged); when the subject is
\* present only its compatibility is removed.
C6_ConfigTombstone ==
    [][ \A m \in Msgs :
          ( /\ m.keyBytes = "json" /\ m.valueBytes = "empty"
            /\ m.key.keytype = "CONFIG" /\ m.key.subject # None
            /\ RecordStep(m) ) =>
              /\ outcome' = "handled"
              /\ schemas' = schemas
              /\ global_schema_id' = global_schema_id
              /\ compatibility' = compatibility
              /\ IF m.key.subject \in DOMAIN subjects
                 THEN subjects' = [subjects EXCEPT ![m.key.subject].compatibility = None]
                 ELSE subjects' = subjects ]_vars

\* C7: a SCHEMA record whose schemaType is not AVRO, JSON or PROTOBUF is
\* skipped: handle_msg returns without raising and subjects, schemas_by_id and
\* global_schema_id are unchanged.
C7_UnknownTypeSkipped ==
    [][ \A m \in Msgs :
          ( /\ IsSchemaValue(m)
            /\ m.value.schemaType \notin {None, "AVRO", "JSON", "PROTOBUF"}
            /\ RecordStep(m) ) =>
              /\ outcome' \notin Exceptions
              /\ UNCHANGED <<subjects, schemas, global_schema_id>> ]_vars

\* C8: when applying a record raises, the exception is caught and the records
\* after it, the rest of its polled batch included, are still applied: the
\* batch loses the one record and the rest stays to be handled.
C8_RaiseKeepsBatch ==
    [][ \A m \in Msgs :
          (RecordStep(m) /\ outcome' \in Exceptions) => batch' = batch - 1 ]_vars

\* C9: get_schema_id(s) returns the id of an entry of schemas_by_id equal to s
\* whenever there is one, and then leaves global_schema_id unchanged; only when
\* no entry equals s it increments global_schema_id and returns the new value.
C9_GetSchemaId ==
    [][ \A t \in Threads :
          (threads[t].pc = "idle" /\ threads'[t].pc = "done") =>
              LET s == threads'[t].arg
                  r == threads'[t].result
              IN IF \E i \in DOMAIN schemas : schemas[i].schema = s
                 THEN /\ \E i \in DOMAIN schemas : schemas[i].id = r /\ schemas[i].schema = s
                      /\ global_schema_id' = global_schema_id
                 ELSE /\ global_schema_id' = global_schema_id + 1
                      /\ r = global_schema_id' ]_vars

\* C9 witness: a call has returned the id of the second entry of schemas_by_id,
\* the one equal to its argument.
C9_Witness ==
    \E t \in Threads :
        /\ threads[t].pc = "done"
        /\ Len(schemas) = 2
        /\ schemas[1].schema # threads[t].arg
        /\ schemas[2].schema = threads[t].arg
        /\ threads[t].result = schemas[2].id

\* C10: every write to schemas_by_id and every read or update of
\* global_schema_id, by the reader thread in handle_msg and by request threads
\* in get_schema_id, is made while the acting thread holds id_lock.
C10_AccessesUnderLock ==
    [][ /\ schemas' # schemas => id_lock = "reader"
        /\ (rpc \in {"l257", "l258", "l276", "l277"} /\ rpc' # rpc) => id_lock = "reader"
        /\ \A t \in Threads :
              (threads[t].pc \in {"l129r", "l129w", "l130"} /\ threads'[t] # threads[t])
                  => id_lock = t ]_vars

\* The version entries of subject s in the table subj (none when s is absent).
VersionsOf(subj, s) == IF s \in DOMAIN subj THEN DOMAIN subj[s].schemas ELSE {}

\* The step stores the version entry of m under m's subject and m's schema under
\* m's id, and changes nothing else of subjects and schemas_by_id.
StoresVersion(m) ==
    LET s == m.value.subject
        v == m.value.version
        typed == [schema_type |-> IF m.value.schemaType = None THEN "AVRO" ELSE m.value.schemaType,
                  schema_str |-> m.value.schema]
    IN /\ DOMAIN subjects' = (DOMAIN subjects) \cup {s}
       /\ \A x \in DOMAIN subjects : x # s => subjects'[x] = subjects[x]
       /\ DOMAIN subjects'[s].schemas = VersionsOf(subjects, s) \cup {v}
       /\ subjects'[s].schemas[v] =
              [schema |-> typed, version |-> v, id |-> m.value.id, deleted |-> FALSE]
       /\ \A w \in VersionsOf(subjects, s) \ {v} :
              subjects'[s].schemas[w] = subjects[s].schemas[w]
       /\ SchemaIds(schemas') = SchemaIds(schemas) \cup {m.value.id}
       /\ \A i \in DOMAIN schemas' :
              IF schemas'[i].id = m.value.id
              THEN schemas'[i].schema = typed
              ELSE \E j \in DOMAIN schemas : schemas[j] = schemas'[i]

\* C11 as stated: a SCHEMA record with a non-deleted value inserts or overwrites
\* the version entry under its subject (created when absent), sets
\* schemas_by_id[id] to its schema and leaves every other subject and every
\* other schemas_by_id entry unchanged.
C11_AnyLiveSchemaStores ==
    [][ \A m \in Msgs :
          (IsSchemaValue(m) /\ ~m.value.deleted /\ RecordStep(m)) => StoresVersion(m) ]_vars

\* C11 amended: a SCHEMA record with a non-deleted value of a known schema type
\* whose text, for AVRO and JSON, is valid JSON, is handled without raising,
\* inserts or overwrites the version entry under its subject (created when
\* absent), sets schemas_by_id[id] to its schema and leaves every other subject
\* and every other schemas_by_id entry unchanged.
C11_LiveSchemaStores ==
    [][ \A m \in Msgs :
          (IsSchemaValue(m) /\ IsWellTyped(m) /\ ~m.value.deleted /\ RecordStep(m)) =>
              /\ outcome' = "handled"
              /\ StoresVersion(m) ]_vars

\* C11 witness: the second record of the log has overwritten version 1 of the
\* only subject with id 2, after the first had stored it with id 1.
C11_Witness ==
    /\ offset = 1
    /\ Len(schemas) = 2 /\ schemas[1].id = 1 /\ schemas[2].id = 2
    /\ \E s \in Subjects :
          /\ DOMAIN subjects = {s}
          /\ DOMAIN subjects[s].schemas = {1}
          /\ subjects[s].schemas[1].id = 2

\* C12: a SCHEMA tombstone for (subject, version) removes exactly that version
\* entry and leaves schemas_by_id, global_schema_id and every other version
\* entry unchanged; when the subject or the version is missing the registry is
\* unchanged and nothing is raised.
C12_SchemaTombstone ==
    [][ \A m \in Msgs :
          ( /\ m.keyBytes = "json" /\ m.valueBytes = "empty"
            /\ m.key.keytype = "SCHEMA"
            /\ RecordStep(m) ) =>
              LET s == m.key.subject
                  v == m.key.version
              IN /\ outcome' = "handled"
                 /\ schemas' = schemas
                 /\ global_schema_id' = global_schema_id
                 /\ compatibility' = compatibility
                 /\ IF v \in VersionsOf(subjects, s)
                    THEN /\ DOMAIN subjects' = DOMAIN subjects
                         /\ \A x \in DOMAIN subjects : x # s => subjects'[x] = subjects[x]
                         /\ subjects'[s].compatibility = subjects[s].compatibility
                         /\ DOMAIN subjects'[s].schemas = (DOMAIN subjects[s].schemas) \ {v}
                         /\ \A w \in DOMAIN subjects'[s].schemas :
                                subjects'[s].schemas[w] = subjects[s].schemas[w]
                    ELSE subjects' = subjects ]_vars

\* C12 witness: the only subject has lost its last version entry to a tombstone;
\* the schema the entry named is still in schemas_by_id, under the id that had
\* raised global_schema_id.
C12_Witness ==
    /\ \E s \in Subjects : DOMAIN subjects = {s} /\ DOMAIN subjects[s].schemas = {}
    /\ Len(schemas) = 1
    /\ global_schema_id = schemas[1].id

\* C13: a DELETE_SUBJECT record with value.version = v marks as deleted every
\* version entry of the named subject with version <= v, leaves every entry
\* with a greater version and every other subject unchanged, removes no entry,
\* and changes nothing, without raising, when the subject is missing.
C13_DeleteSubject ==
    [][ \A m \in Msgs :
          ( /\ m.keyBytes = "json" /\ m.valueBytes = "json"
            /\ m.key.keytype = "DELETE_SUBJECT"
            /\ RecordStep(m) ) =>
              LET s == m.value.subject
                  v == m.value.version
              IN /\ outcome' = "handled"
                 /\ schemas' = schemas
                 /\ global_schema_id' = global_schema_id
                 /\ compatibility' = compatibility
                 /\ IF s \in DOMAIN subjects
                    THEN /\ DOMAIN subjects' = DOMAIN subjects
                         /\ \A x \in DOMAIN subjects : x # s => subjects'[x] = subjects[x]
                         /\ subjects'[s].compatibility = subjects[s].compatibility
                         /\ DOMAIN subjects'[s].schemas = DOMAIN subjects[s].schemas
                         /\ \A w \in DOMAIN subjects[s].schemas :
                                subjects'[s].schemas[w] =
                                    IF w <= v
                                    THEN [schema |-> subjects[s].schemas[w].schema,
                                          version |-> w,
                                          id |-> subjects[s].schemas[w].id,
                                          deleted |-> TRUE]
                                    ELSE subjects[s].schemas[w]
                    ELSE subjects' = subjects ]_vars

\* C13 witness: a subject holds version 1 marked deleted, with a schema text
\* only records with deleted not true carry, and version 2 live.
C13_Witness ==
    \E s \in DOMAIN subjects :
        /\ DOMAIN subjects[s].schemas = {1, 2}
        /\ subjects[s].schemas[1].deleted
        /\ subjects[s].schemas[1].schema.schema_str # "[]"
        /\ ~subjects[s].schemas[2].deleted

\* The step is consumer.poll returning to handle_messages, inside run().
PollReturns == rloc = "l147" /\ rloc' = "l176"

\* C14: ready is false from reader start until a poll returns no records,
\* becomes true at the first such empty poll, and once true stays true whatever
\* records or exceptions follow.
C14_ReadyAtFirstEmptyPoll ==
    /\ ready = FALSE
    /\ [][ /\ PollReturns => ready' = (ready \/ batch' = 0)
           /\ ~PollReturns => ready' = ready
           /\ ready => ready' ]_vars

\* C14 witness: the reader is ready, and after the empty poll a record was
\* polled whose handling raised.
C14_Witness ==
    /\ ready
    /\ position > 0
    /\ outcome \in Exceptions

\* The step applies a record inside run().
AppliesRecord == \E m \in RunMsgs : ApplyRecord(m)

\* The offsets of the queue are in the order of the log.
QueueInOrder(q) == \A i, j \in DOMAIN q : i < j => q[i] < q[j]

\* C15 as stated: whenever a record is applied while the coordinator reports
\* this node as master, its offset is pushed onto the queue, after the offsets
\* pushed before it; no offset is pushed while the node is a follower or its
\* status is undetermined.
C15_MasterQueuesEveryOffset ==
    [][ /\ AppliesRecord =>
              queue' = IF are_we_master = "True" THEN Append(queue, offset') ELSE queue
        /\ ~AppliesRecord => queue' = queue
        /\ QueueInOrder(queue') ]_vars

\* C15 amended: whenever a record is applied after the reader has become ready,
\* in a call of handle_messages in which the coordinator reported this node as
\* master, its offset is pushed onto the queue, after the offsets pushed before
\* it; no offset is pushed before the reader is ready, nor while the node is a
\* follower or its status is undetermined.
C15_ReadyMasterQueuesOffset ==
    [][ /\ AppliesRecord =>
              queue' = IF ready /\ are_we_master = "True"
                       THEN Append(queue, offset')
                       ELSE queue
        /\ ~AppliesRecord => queue' = queue
        /\ QueueInOrder(queue') ]_vars

\* C15 witness: two offsets were queued, and by now the node is a follower.
C15_Witness ==
    /\ Len(queue) = 2
    /\ are_we_master = "False"

\* C16: once close() has cleared running, run() leaves its loop when the current
\* turn ends, and when run() returns close() has been called on every client
\* that was created, also when closing one of them raises.
C16_CloseReleasesClients ==
    [][ /\ (rloc = "l137" /\ ~running /\ rloc' # rloc) => rloc' = "l153"
        /\ rloc' = "returned" => (admin_client' # "open" /\ consumer' # "open") ]_vars

\* What the checker of a kind returns when the underlying checker answers raw.
KindCheck(kind, raw) == IF kind = "AVRO" THEN CheckAvroCompatibility(raw) ELSE raw

\* check_compatibility has returned from a call on two schemas of one kind.
CheckedSameKind ==
    /\ args.compatibility_mode \in Modes
    /\ args.old_schema.schema_type = args.new_schema.schema_type

\* C17: for two schemas of the same kind (Avro, JSON Schema or Protobuf),
\* BACKWARD and BACKWARD_TRANSITIVE return the kind's checker result for
\* (reader = new, writer = old), FORWARD and FORWARD_TRANSITIVE the result for
\* (reader = old, writer = new), FULL and FULL_TRANSITIVE the merge of the
\* BACKWARD result with the FORWARD result.
C17_ModeSelectsDirection ==
    LET kind == args.old_schema.schema_type
        old == args.old_schema.schema_str
        new == args.new_schema.schema_str
        mode == args.compatibility_mode
        back == KindCheck(kind, checker.backward)
        forw == KindCheck(kind, checker.forward)
        backCall == [kind |-> kind, reader |-> new, writer |-> old]
        forwCall == [kind |-> kind, reader |-> old, writer |-> new]
    IN CheckedSameKind =>
          /\ mode \in {"BACKWARD", "BACKWARD_TRANSITIVE"} =>
                result = back /\ checker_calls = <<backCall>>
          /\ mode \in {"FORWARD", "FORWARD_TRANSITIVE"} =>
                result = forw /\ checker_calls = <<forwCall>>
          /\ mode \in {"FULL", "FULL_TRANSITIVE"} =>
                /\ result = IF back.compatibility = "compatible" /\ forw.compatibility = "compatible"
                            THEN [compatibility |-> "compatible", incompatibilities |-> <<>>]
                            ELSE [compatibility |-> "incompatible",
                                  incompatibilities |->
                                      back.incompatibilities \o forw.incompatibilities]
                /\ checker_calls = <<backCall, forwCall>>

C19_TypeMismatch ==
    ( /\ args.compatibility_mode \in Modes
      /\ args.old_schema.schema_type # args.new_schema.schema_type ) =>
        /\ result = [compatibility |-> "incompatible", incompatibilities |-> <<"type_mismatch">>]
        /\ checker_calls = <<>>

\* C19 witness: an Avro and a JSON Schema schema were compared in mode FULL.
C19_Witness ==
    /\ args.compatibility_mode = "FULL"
    /\ args.old_schema.schema_type = "AVRO"
    /\ args.new_schema.schema_type = "JSONSCHEMA"
    /\ result.incompatibilities = <<"type_mismatch">>

\* C20: check_avro_compatibility returns compatible when the Avro checker
\* reports compatible, or an incompatibility all of whose kinds are
\* missing-enum-symbols, once or several times; in every other case it returns
\* the checker's result unchanged.
C20_MissingEnumSymbolsDowngraded ==
    (args.compatibility_mode = None /\ checker_calls # <<>>) =>
        LET raw == checker.backward
        IN result =
              IF \/ raw.compatibility = "compatible"
                 \/ \A i \in DOMAIN raw.incompatibilities :
                       raw.incompatibilities[i] = "missing_enum_symbols"
              THEN [compatibility |-> "compatible", incompatibilities |-> <<>>]
              ELSE raw

\* Offsets of the records the backup consumer has received from its polls, in order.
Received == [i \in 1..(fetch_offset - log_start) |-> log_start + i - 1]

\* Offset of the last record received so far; the first offset of the partition
\* when none was received.
LastReceived == IF fetch_offset = log_start THEN log_start ELSE fetch_offset - 1

\* This step is a poll of the backup consumer that returns no record.
EmptyPoll == polls' = polls + 1 /\ fetch_offset' = fetch_offset

IsPrefix(s, t) == Len(s) <= Len(t) /\ \A i \in DOMAIN s : s[i] = t[i]

\* C21: a poll of create() that returns no record before a record with offset
\* >= end_offset was received raises StaleConsumerError with start_offset,
\* end_offset = high watermark - 1 (as read when consumption started) and the offset
\* of the last record received, start_offset when none was received.
C21_StaleConsumerError ==
    [][(EmptyPoll /\ fetch_offset < watermark) =>
          /\ backup_exception' = "StaleConsumerError"
          /\ bloc' = "raised"
          /\ stale' = StaleConsumerError(log_start, watermark - 1, LastReceived)]_vars

\* Start offset 0, high watermark 3, a poll returns the records 0 and 1, the next
\* poll returns none.
C21_Witness ==
    /\ backup_exception = "StaleConsumerError"
    /\ stale = StaleConsumerError(0, 2, 1)
    /\ stored = <<0, 1>>

\* C22: on an empty partition (start_offset > high watermark - 1) create() returns
\* without raising, polling, storing a record, finalizing the partition or storing
\* metadata.
C22_EmptyPartitionReturns ==
    (command = "create" /\ watermark >= 0 /\ start_offset > watermark - 1) =>
        /\ bloc = "returned"
        /\ backup_exception = None
        /\ polls = 0
        /\ stored = <<>> /\ records = <<>>
        /\ finalized = 0
        /\ metadata = 0

C22_Witness ==
    /\ command = "create" /\ bloc = "returned"
    /\ watermark = 1 /\ start_offset = 1
    /\ caught = "EmptyPartition"

\* C23: in create() on a non-empty partition whose polls all return records, every
\* record received is stored exactly once and in order, no poll is made after the
\* first poll whose last record has offset >= end_offset, and only then the
\* partition is finalized and after that the metadata stored, each exactly once.
C23_StoresThenFinalizes ==
    /\ [](command = "create" =>
            /\ IsPrefix(stored, Received)
            /\ bloc \in {"l245", "l273", "l436"} => stored = Received
            /\ finalized <= 1
            /\ metadata <= finalized
            /\ finalized = 1 =>
                  /\ polls > 0
                  /\ stored = Received
                  /\ LastReceived >= watermark - 1
            /\ (/\ polls > 0
                /\ bloc \in {"returned", "raised"}
                /\ backup_exception # "StaleConsumerError") =>
                  /\ bloc = "returned"
                  /\ backup_exception = None
                  /\ stored = Received
                  /\ finalized = 1
                  /\ metadata = 1)
    /\ [][(polls' = polls + 1) => (polls = 0 \/ LastReceived < watermark - 1)]_vars

\* Three records in two polls, then finalize_partition and store_metadata.
C23_Witness ==
    /\ command = "create" /\ bloc = "returned"
    /\ polls = 2
    /\ stored = <<0, 1, 2>>
    /\ finalized = 1 /\ metadata = 1

RECURSIVE SendsIn(_)
\* Indices of the ProducerSend instructions among the first n of the stream, in order.
SendsIn(n) ==
    IF n = 0 THEN <<>>
    ELSE IF stream[n].type = "ProducerSend" THEN Append(SendsIn(n - 1), n)
         ELSE SendsIn(n - 1)

RECURSIVE RestoreTopicsIn(_)
\* Number of RestoreTopic instructions among the first n of the stream.
RestoreTopicsIn(n) ==
    IF n = 0 THEN 0
    ELSE RestoreTopicsIn(n - 1) + (IF stream[n].type = "RestoreTopic" THEN 1 ELSE 0)

\* C24: no ProducerSend is forwarded before a RestoreTopic was processed: a
\* ProducerSend that comes first makes restore_backup raise with nothing sent, and
\* after a RestoreTopic every ProducerSend handled is forwarded exactly once, in
\* stream order, to the producer opened for the last RestoreTopic before it.
C24_RestoreTopicBeforeSend ==
    command = "restore" =>
        /\ \A k \in DOMAIN sent :
              /\ sent[k].producer >= 1
              /\ sent[k].producer = RestoreTopicsIn(sent[k].instruction)
        /\ [k \in DOMAIN sent |-> sent[k].instruction] = SendsIn(ipos)
        /\ bloc = "returned" => ipos = Len(stream)
        /\ (/\ backup_location = "file"
            /\ stream # <<>> /\ stream[1].type = "ProducerSend"
            /\ bloc \in {"exit", "returned", "raised"}) =>
              /\ backup_exception = "RuntimeError"
              /\ bloc # "returned"
              /\ sent = <<>>

C24_Witness ==
    /\ command = "restore" /\ bloc = "returned"
    /\ Len(sent) = 2
    /\ stream[1].type = "RestoreTopic"

\* C25: every producer restore_backup opened, one per RestoreTopic processed, is
\* closed when restore_backup has returned or raised.
C25_ProducersClosed ==
    command = "restore" =>
        /\ RestoreTopicsIn(ipos) <= Len(producers)
        /\ Len(producers) <= RestoreTopicsIn(ipos) + 1
        /\ bloc \in {"returned", "raised"} =>
              \A i \in DOMAIN producers : producers[i].state = "closed"

\* Two producers and one send, then the reader raises.
C25_Witness ==
    /\ command = "restore" /\ bloc = "raised"
    /\ backup_exception = "ReaderError"
    /\ Len(producers) = 2 /\ Len(sent) = 1

AdminRetried == tloc = "l136" /\ tloc' = "l136"

\* This step retries _maybe_create_topic.
TopicRetried == tloc \in {"l136", "l172"} /\ tloc' = "l152"

\* Retries happen only after a Kafka error before the deadline, any other error
\* propagates after the first attempt, and an existing topic is success.
RetryDiscipline ==
    /\ AdminRetried =>
          \E d \in Durations :
              /\ AdminAttempt("KafkaError", d)
              /\ clock + d - admin_start < AdminStopAfterDelay
    /\ TopicRetried =>
          \E d \in Durations :
              /\ AdminAttempt("KafkaError", d) \/ CreateTopics("KafkaError", d)
              /\ clock + d - topic_start < TopicStopAfterDelay
    /\ \A d \in Durations :
          (AdminAttempt("OtherError", d) \/ CreateTopics("OtherError", d)) =>
              /\ tloc' = "raised"
              /\ retry_exception' = "OtherError"
    /\ \A d \in Durations :
          CreateTopics("TopicAlreadyExistsError", d) =>
              /\ tloc' = "returned"
              /\ retry_exception' = None
              /\ stderr' = <<>>

\* C27 (as claimed): admin-client creation and topic creation are retried only
\* after a Kafka error and only until the 60-second deadline, any other error
\* propagates after the first attempt, an existing topic counts as success, and
\* every failed attempt prints a message naming the action and the outcome.
C27_EveryFailedAttemptPrints ==
    [][/\ RetryDiscipline
       /\ \A exc \in Errors, d \in Durations :
             /\ AdminAttempt(exc, d) =>
                   \/ stderr' = <<BeforeSleep("Kafka Admin client creation", exc)>>
                   \/ stderr' = <<BeforeSleep("Schemas topic creation", exc)>>
             /\ CreateTopics(exc, d) =>
                   stderr' = <<BeforeSleep("Schemas topic creation", exc)>>]_vars

\* C27 (amended): the same discipline, and a failed attempt prints the message
\* naming the action and the outcome exactly when it is followed by a retry; the
\* attempt whose error propagates prints nothing.
C27_RetriedAttemptPrints ==
    [][/\ RetryDiscipline
       /\ \A exc \in Errors, d \in Durations :
             (AdminAttempt(exc, d) \/ CreateTopics(exc, d)) =>
                 stderr' = IF AdminRetried
                             THEN <<BeforeSleep("Kafka Admin client creation", exc)>>
                           ELSE IF TopicRetried
                             THEN <<BeforeSleep("Schemas topic creation", exc)>>
                           ELSE <<>>]_vars

\* The deadline has passed with a Kafka error: it is re-raised, nothing is printed.
C27_Witness ==
    /\ tloc = "raised"
    /\ retry_exception = "KafkaError"
    /\ clock >= TopicStopAfterDelay
    /\ stderr = <<>>

\* The auth file cannot be loaded: it is absent or unreadable, is not JSON, or
\* names an unknown algorithm, an unknown operation or a bad pattern.
Invalid(file) ==
    \/ file.state # "json"
    \/ \E i \in DOMAIN file.users : file.users[i].algorithm \notin HashAlgorithms
    \/ \E i \in DOMAIN file.permissions :
          \/ file.permissions[i].operation \notin Operations
          \/ file.permissions[i].resource \notin Patterns

\* C28: a reload of the auth file that fails keeps the user table and the
\* permission list as they were, leaves the refresh task running and is attempted
\* again on a later tick; a failure of the first load raises InvalidConfiguration.
C28_FailedReloadKeepsTables ==
    [][/\ (RefreshTick /\ (authfile.state = "absent" \/ last_loaded < mtime)
                       /\ Invalid(authfile)) =>
             /\ userdb' = userdb
             /\ permissions' = permissions
             /\ refresh_task' = "running"
             /\ auth_logged' # None
             /\ authfile'.state # "absent" => last_loaded' < mtime'
       /\ (Construct /\ Invalid(authfile)) =>
             /\ authorizer' = "InvalidConfiguration"
             /\ userdb' = <<>> /\ permissions' = <<>>]_vars

\* A file with a bad pattern was written over a loaded one and a tick has passed.
C28_Witness ==
    /\ refresh_task = "running"
    /\ auth_logged = "InvalidConfiguration"
    /\ authfile.state = "json" /\ Invalid(authfile)
    /\ userdb # <<>> /\ permissions # <<>>
    /\ last_loaded < mtime

\* The schema schemas_by_id holds under id.
SchemaOfId(sch, id) == sch[SchemaAt(sch, id)].schema

\* C29: a SCHEMA record with deleted = true for a subject that exists never
\* changes the set of versions of the subject: when the subject holds the version,
\* only the deleted flag of that entry becomes true, and when it does not, only
\* schemas_by_id[id] is set; global_schema_id changes in neither case.
C29_DeletedSchemaRecord ==
    [][ \A m \in Msgs :
          ( /\ IsSchemaValue(m) /\ IsWellTyped(m)
            /\ m.value.deleted = TRUE
            /\ m.value.subject \in DOMAIN subjects
            /\ RecordStep(m) ) =>
              LET s == m.value.subject
                  v == m.value.version
                  id == m.value.id
              IN /\ outcome' = "handled"
                 /\ global_schema_id' = global_schema_id
                 /\ compatibility' = compatibility
                 /\ DOMAIN subjects' = DOMAIN subjects
                 /\ \A x \in DOMAIN subjects : x # s => subjects'[x] = subjects[x]
                 /\ DOMAIN subjects'[s].schemas = DOMAIN subjects[s].schemas
                 /\ IF v \in DOMAIN subjects[s].schemas
                    THEN /\ schemas' = schemas
                         /\ subjects'[s].compatibility = subjects[s].compatibility
                         /\ \A w \in DOMAIN subjects[s].schemas :
                                subjects'[s].schemas[w] =
                                    IF w = v
                                    THEN [schema |-> subjects[s].schemas[v].schema,
                                          version |-> subjects[s].schemas[v].version,
                                          id |-> subjects[s].schemas[v].id,
                                          deleted |-> TRUE]
                                    ELSE subjects[s].schemas[w]
                    ELSE /\ subjects' = subjects
                         /\ SchemaIds(schemas') = SchemaIds(schemas) \cup {id}
                         /\ SchemaOfId(schemas', id) =
                                [schema_type |-> m.value.schemaType,
                                 schema_str |-> m.value.schema]
                         /\ \A j \in SchemaIds(schemas) \ {id} :
                                SchemaOfId(schemas', j) = SchemaOfId(schemas, j) ]_vars

\* C29 witness: the subject holds version 1 only, schemas_by_id holds a second
\* schema, of the kind only records with deleted = true carry, under an id that
\* did not raise global_schema_id.
C29_Witness ==
    /\ \E s \in Subjects : DOMAIN subjects = {s} /\ DOMAIN subjects[s].schemas = {1}
    /\ Len(schemas) = 2
    /\ schemas[2].schema.schema_str = "[]"
    /\ global_schema_id < schemas[2].id

\* C30: get_schema_id(s), for a schema s that equals no schema of schemas_by_id,
\* returns an id that is no key of schemas_by_id.
C30_NewSchemaGetsFreshId ==
    [][ \A t \in Threads :
          ( /\ threads[t].pc = "idle" /\ threads'[t].pc = "done"
            /\ \A i \in DOMAIN schemas : schemas[i].schema # threads'[t].arg ) =>
              threads'[t].result \notin SchemaIds(schemas) ]_vars


\* A request thread whose call has returned an id it allocated at lines 128-130:
\* its scan reached the end of the table without a match.
Allocated(t) == threads[t].pc = "done" /\ threads[t].cursor = threads[t].size

\* A request thread stands inside the scan of lines 125-127.
Scanning(t) == threads[t].pc = "l126"

\* C31: under any interleaving of the reader thread applying SCHEMA records and
\* request threads calling get_schema_id, global_schema_id never decreases, and
\* no two calls of get_schema_id that allocate a new id return the same id.
C31_IdsMonotoneAndUnique ==
    /\ [](\A t, u \in Threads :
             (t # u /\ Allocated(t) /\ Allocated(u))
                 => threads[t].result # threads[u].result)
    /\ [][global_schema_id' >= global_schema_id]_vars

\* C32: the scan of schemas_by_id in get_schema_id runs over a consistent
\* snapshot: while a request thread is between the start and the end of its
\* scan no step inserts into schemas_by_id, and no scan finds the table changed
\* under it (the RuntimeError of the dict iterator).
C32_ScanOverSnapshot ==
    /\ [](\A t \in Threads : threads[t].pc # "error")
    /\ [][(\E t \in Threads : Scanning(t)) => SchemaIds(schemas') = SchemaIds(schemas)]_vars


\* This step hands a record to store_record.
Stores == Len(stored') = Len(stored) + 1

\* C33 as stated: every record that create() hands to store_record has an offset
\* between start_offset and end_offset = high watermark - 1 inclusive, as computed
\* when consumption of the partition started, also when producers append records
\* to the topic while the backup runs.
C33_StoredWithinOffsets ==
    (command = "create" /\ stored # <<>>) =>
        /\ end_offset = watermark - 1
        /\ \A i \in DOMAIN stored : start_offset <= stored[i] /\ stored[i] <= end_offset

\* C33, amended: every record that create() hands to store_record has an offset of
\* at least start_offset, and of at most end_offset = high watermark - 1 (as
\* computed when consumption of the partition started) while no record was
\* appended to the topic since; a record with an offset above end_offset is
\* stored only when it is returned by a poll made before last_offset reached
\* end_offset.
C33_StoredFromStartOffset ==
    /\ []((command = "create" /\ stored # <<>>) =>
            /\ end_offset = watermark - 1
            /\ \A i \in DOMAIN stored :
                  /\ start_offset <= stored[i]
                  /\ high_watermark = watermark => stored[i] <= end_offset)
    /\ [][(Stores /\ record' > end_offset) => (polls = 1 \/ last_offset < end_offset)]_vars

\* Start offset 0 and high watermark 1 when consumption starts; a producer appends
\* the record 1, the first poll returns the records 0 and 1, and both are stored.
C33_Witness ==
    /\ command = "create" /\ bloc = "returned"
    /\ start_offset = 0 /\ end_offset = 0 /\ watermark = 1
    /\ high_watermark = 2
    /\ stored = <<0, 1>>
    /\ finalized = 1 /\ metadata = 1

====
